---- MODULE Spec2Model ----
(***************************************************************************)
(* Verification model of the estimation-task repository:                   *)
(*   - the permuted-block randomizer and the session-create handler of     *)
(*     the server (src/unnamed/part_003),                                  *)
(*   - the layout engine and the zone-height reconciliation of the         *)
(*     process-map renderer                                                *)
(*     (src/versions/v2-pilot-1/public/js/process-map-svg.js).             *)
(***************************************************************************)
EXTENDS Integers, Sequences, FiniteSets, TLC

\* ------------------------------------------------------------------------
\* Bounds of the model (not program constants)
\* ------------------------------------------------------------------------
MaxSessions == 8
MaxForced == 1
MaxRestarts == 1
MaxRaces == 1
MaxZones == 2
MaxPasses == 2
MaxCalls == 2
MaxLen == 5
MaxWords == 3
MaxLog == 5
MaxSubmits == 1
MaxParticipants == 2
MaxPhases == 2

\* ------------------------------------------------------------------------
\* Server: block randomization
\* ------------------------------------------------------------------------
BLOCK_SIZE == 4

CONDITIONS == <<"detailed", "simple">>

\* JavaScript null / undefined of a request field or of a record field.
NoValue == "none"

\* blockRandomize._currentBlock = null is the empty sequence: it is falsy
\* and its length differs from BLOCK_SIZE, as null is on line 72.
NullBlock == <<>>

\* The prolific ids a request can carry: participants who come without a
\* PROLIFIC_PID (the record holds null), participants who come with an empty
\* one, and participants who come with one.
AnonymousPids == {NoValue}
Pids == {NoValue, "", "p1", "p2"}

\* The values of a prolific id that are falsy on lines 102, 108 and 122
Falsy == {NoValue, ""}

\* The CONDITION values a request can carry: none, the two valid labels and
\* a value that is not a condition.
RequestConditions == {NoValue, "detailed", "simple", "bogus"}

VARIABLES
    sessions,      \* sessions.jsonl: the append-only log of session records
    currentBlock,  \* blockRandomize._currentBlock
    response,      \* the body of the last response of the server
    restarts,      \* history: number of restarts, and whether one fell inside a block
    races,         \* history: the number of counted assignments after each race
    estimations    \* estimations.jsonl: the append-only log of submissions

serverVars == <<sessions, currentBlock, response, restarts, races, estimations>>

VARIABLES
    processMap,     \* PROCESS_MAP.phases
    expandedSteps,  \* the set expandedSteps of the renderer
    currentOptions, \* the options of the last render(containerId, options)
    lastLayout,     \* lastLayout, as getLastLayout() returns it
    beforeClick,    \* history: the last step clicked, the layout shown before the
                    \* click, and whether the click before was on the same step
    passLayouts     \* the layout handed to the reconciliation and its results

rendererVars == <<processMap, expandedSteps, currentOptions, lastLayout, beforeClick, passLayouts>>

VARIABLES
    args,     \* the arguments of the calls of a function of the renderer
    results,  \* what the calls made with args returned, in the order of the calls
    stale     \* history: how many of the oldest records of sessions.jsonl were
              \* started more than 30 minutes ago

callVars == <<args, results, stale>>

VARIABLES
    state     \* the state object of app.js (with the app.js that is loaded)

\* existingSessions.filter(s => !s.condition_forced && s.condition).map(s => s.condition)
IsCountedWrong(s) == s.condition # NoValue
IsCounted(s) == ~s.condition_forced /\ s.condition # NoValue

Assigned(existingSessions) ==
    LET counted == SelectSeq(existingSessions, IsCounted)
    IN  [i \in 1..Len(counted) |-> counted[i].condition]

\* assigned.filter(c => c === label).length
CountOf(assigned, label) == Cardinality({i \in 1..Len(assigned) : assigned[i] = label})

\* The block before the shuffle: BLOCK_SIZE/2 copies of each condition, in
\* the order of CONDITIONS.
UnshuffledBlockWrong ==
    [k \in 1..BLOCK_SIZE |-> CONDITIONS[((k - 1) \div BLOCK_SIZE) + 1]]
UnshuffledBlock ==
    [k \in 1..BLOCK_SIZE |-> CONDITIONS[((k - 1) \div (BLOCK_SIZE \div 2)) + 1]]

\* The draws of Math.floor(Math.random() * (i + 1)) for i = length-1 .. 1,
\* here with 1-based indices: rnd[i] is in 1..i for i = BLOCK_SIZE .. 2.
ShuffleDraws == {rnd \in [2..BLOCK_SIZE -> 1..BLOCK_SIZE] : \A i \in 2..BLOCK_SIZE : rnd[i] <= i}

\* The draws of Math.random() < 0.5 ? 'detailed' : 'simple'
CoinDraws == {"detailed", "simple"}

SwapAtWrong(block, i, j) == [block EXCEPT ![i] = block[j]]
SwapAt(block, i, j) == [block EXCEPT ![i] = block[j], ![j] = block[i]]

RECURSIVE FisherYates(_, _, _)
FisherYates(block, i, rnd) ==
    IF i < 2 THEN block
    ELSE FisherYates(SwapAt(block, i, rnd[i]), i - 1, rnd)

\* Lines 57-65: every block the shuffle can produce.
ShuffledBlocks == {FisherYates(UnshuffledBlock, BLOCK_SIZE, rnd) : rnd \in ShuffleDraws}

\* slice(0, n) and slice(-n) of an array
SliceFirst(arr, n) == SubSeq(arr, 1, n)
SliceLast(arr, n) == SubSeq(arr, Len(arr) - n + 1, Len(arr))

\* expected.every((c, i) => c === actual[i])
Consistent(expected, actual) ==
    \A i \in 1..Len(expected) : i <= Len(actual) /\ expected[i] = actual[i]

\* Lines 84-88: assign to the smaller group, random tie-break.
FallbackAlwaysFirst(assigned, coin) == CONDITIONS[1]
FallbackCoinOnly(assigned, coin) == coin
FallbackWrong(assigned, coin) ==
    LET detailedCount == CountOf(assigned, "detailed")
        simpleCount == CountOf(assigned, "simple")
    IN  IF detailedCount < simpleCount THEN "simple"
        ELSE IF simpleCount < detailedCount THEN "detailed"
        ELSE coin
Fallback(assigned, coin) ==
    LET detailedCount == CountOf(assigned, "detailed")
        simpleCount == CountOf(assigned, "simple")
    IN  IF detailedCount < simpleCount THEN "detailed"
        ELSE IF simpleCount < detailedCount THEN "simple"
        ELSE coin

\* blockRandomize(existingSessions) with the cache it reads and the random
\* draws it makes (the shuffled block of lines 57-65, the coin of line 88);
\* the result is the label returned and the cache it leaves.
BlockRandomizeBlockOnly(existingSessions, cache, shuffled, coin) ==
    LET assigned == Assigned(existingSessions)
        total == Len(assigned)
        posInBlock == total % BLOCK_SIZE
    IN  IF posInBlock = 0
        THEN [label |-> shuffled[1], cache |-> shuffled]
        ELSE IF /\ cache # NullBlock
                /\ Len(cache) = BLOCK_SIZE
                /\ Consistent(SliceFirst(cache, posInBlock), SliceLast(assigned, posInBlock))
        THEN [label |-> cache[posInBlock + 1], cache |-> cache]
        ELSE [label |-> Fallback(SliceLast(assigned, posInBlock), coin), cache |-> cache]
BlockRandomize(existingSessions, cache, shuffled, coin) ==
    LET assigned == Assigned(existingSessions)
        total == Len(assigned)
        posInBlock == total % BLOCK_SIZE
    IN  IF posInBlock = 0
        THEN [label |-> shuffled[1], cache |-> shuffled]
        ELSE IF /\ cache # NullBlock
                /\ Len(cache) = BLOCK_SIZE
                /\ Consistent(SliceFirst(cache, posInBlock), SliceLast(assigned, posInBlock))
        THEN [label |-> cache[posInBlock + 1], cache |-> cache]
        ELSE [label |-> Fallback(assigned, coin), cache |-> cache]

\* The record appended by /api/session/create (lines 120-130); the session
\* id is the position of the record in the log.
SessionRecord(pid, condition, requested) ==
    [ prolific_pid |-> IF pid \in Falsy THEN NoValue ELSE pid,
      condition |-> condition,
      condition_forced |-> (requested = condition),
      completed |-> FALSE ]

\* Number of forced records in the log (bounds the forced requests).
ForcedCount(existing) == Cardinality({i \in 1..Len(existing) : existing[i].condition_forced})

IsValidCondition(c) == c \in {"detailed", "simple"}

MatchingCompletedOnly(existing, pid, completed) ==
    {i \in 1..Len(existing) :
        /\ completed
        /\ existing[i].prolific_pid \notin Falsy
        /\ existing[i].prolific_pid = pid
        /\ existing[i].completed = completed}

\* Indices of the records of a prolific id, completed or not (lines 102, 108)
Matching(existing, pid, completed) ==
    {i \in 1..Len(existing) :
        /\ existing[i].prolific_pid \notin Falsy
        /\ existing[i].prolific_pid = pid
        /\ existing[i].completed = completed}

First(indices) == CHOOSE i \in indices : \A j \in indices : i <= j

\* POST /api/session/create, one request handled from start to end.
SessionCreate(pid, requested, shuffled, coin) ==
    LET existing == sessions
        dup == Matching(existing, pid, TRUE)
        incomplete == Matching(existing, pid, FALSE)
    IN  IF dup # {}
        THEN /\ response' = [ session_id |-> First(dup),
                              condition |-> existing[First(dup)].condition,
                              kind |-> "already_complete" ]
             /\ UNCHANGED <<sessions, currentBlock, restarts, races, estimations>>
        ELSE IF incomplete # {}
        THEN /\ response' = [ session_id |-> First(incomplete),
                              condition |-> existing[First(incomplete)].condition,
                              kind |-> "resumed" ]
             /\ UNCHANGED <<sessions, currentBlock, restarts, races, estimations>>
        ELSE LET randomized == ~IsValidCondition(requested)
                 r == BlockRandomize(existing, currentBlock, shuffled, coin)
                 condition == IF randomized THEN r.label ELSE requested
             IN  /\ Len(sessions) < MaxSessions
                 /\ randomized \/ ForcedCount(existing) < MaxForced
                 /\ sessions' = Append(existing, SessionRecord(pid, condition, requested))
                 /\ currentBlock' = IF randomized THEN r.cache ELSE currentBlock
                 /\ response' = [ session_id |-> Len(existing) + 1,
                                  condition |-> condition,
                                  kind |-> "created" ]
                 /\ UNCHANGED <<restarts, races, estimations>>

\* The session ids a submission can carry: none (0), the ids of the log and
\* an id that is not in the log.
SubmittedIds == 0..(MaxSessions + 1)

\* POST /api/estimation/submit, one request handled from start to end: the
\* submission is appended to estimations.jsonl, then sessions.jsonl is
\* rewritten with the record of the session marked completed.
EstimationSubmit(session_id, condition) ==
    IF session_id = 0
    THEN /\ response' = [session_id |-> 0, condition |-> NoValue, kind |-> "session_id required"]
         /\ UNCHANGED <<sessions, currentBlock, restarts, races, estimations>>
    ELSE /\ Len(estimations) < MaxSubmits
         /\ estimations' = Append(estimations,
                                [session_id |-> session_id, condition |-> condition])
         /\ sessions' = [i \in 1..Len(sessions) |->
                            IF i = session_id
                            THEN [sessions[i] EXCEPT !.completed = TRUE]
                            ELSE sessions[i]]
         /\ response' = [session_id |-> 0, condition |-> NoValue, kind |-> "submitted"]
         /\ UNCHANGED <<currentBlock, restarts, races>>

\* The server process is restarted: line 90 runs again, the log is kept.
Restart ==
    /\ restarts.count < MaxRestarts
    /\ currentBlock' = NullBlock
    /\ restarts' = [ count |-> restarts.count + 1,
                     midBlock |-> restarts.midBlock
                                  \/ Len(Assigned(sessions)) % BLOCK_SIZE # 0 ]
    /\ UNCHANGED <<sessions, response, races, estimations>>

\* Two requests without CONDITION and without prolific id whose handlers
\* both read the log (line 101) before either appends (line 120): both
\* decisions are computed from the same snapshot, then both are appended.
RaceCreate(shuffled1, coin1, shuffled2, coin2) ==
    LET existing == sessions
        r1 == BlockRandomize(existing, currentBlock, shuffled1, coin1)
        r2 == BlockRandomize(existing, r1.cache, shuffled2, coin2)
    IN  /\ Len(races) < MaxRaces
        /\ Len(sessions) + 2 <= MaxSessions
        /\ sessions' = existing \o << SessionRecord(NoValue, r1.label, NoValue),
                                      SessionRecord(NoValue, r2.label, NoValue) >>
        /\ currentBlock' = r2.cache
        /\ response' = [ session_id |-> Len(existing) + 2,
                         condition |-> r2.label,
                         kind |-> "created" ]
        /\ races' = Append(races, Len(Assigned(sessions')))
        /\ UNCHANGED <<restarts, estimations>>

\* ------------------------------------------------------------------------
\* Process map renderer: configuration (CFG)
\* ------------------------------------------------------------------------
canvasPad == 36
phaseGap == 28
phasePadX == 22
phasePadY == 14
phaseLabelH == 34
stepW == 480
stepMinH == 56
stepPadTop == 12
stepPadBottom == 10
stepNameLineH == 17
stepBadgeRowH == 22
stepNameBadgeGap == 6
stepGap == 14
decisionSize == 50
circleR == 16
loopOffX == 46
stepFontSz == 12
expPadTop == 10
expPadBottom == 10
expLabelH == 16
expLabelGap == 6
expActionLineH == 15
expActionGap == 4
expActionFontSz == 11
expErrorH == 18

PHASE_INNER_W == stepW + phasePadX * 2
BAND_EXTRA == loopOffX + 30
FULL_W == PHASE_INNER_W + canvasPad * 2 + BAND_EXTRA

\* ------------------------------------------------------------------------
\* Text metrics.  A string is a sequence of one-character strings; pixel
\* widths are carried in hundredths of a pixel, so that fontSize * 0.57 is
\* the integer fontSize * 57.
\* ------------------------------------------------------------------------
approxW(str, fontSize) == Len(str) * fontSize * 57

\* The positions of the spaces of a string and, for k in 0..n+1, the k-th
\* of them in ascending order (0 before the first, Len(str) + 1 after the
\* last)
Spaces(str) == {i \in 1..Len(str) : str[i] = " "}

Cut(str, k) ==
    IF k = 0 THEN 0
    ELSE IF k > Cardinality(Spaces(str)) THEN Len(str) + 1
    ELSE CHOOSE i \in Spaces(str) : Cardinality({j \in Spaces(str) : j < i}) = k - 1

\* str.split(' '): the pieces between consecutive spaces
Split(str) ==
    [k \in 1..(Cardinality(Spaces(str)) + 1) |->
        SubSeq(str, Cut(str, k - 1) + 1, Cut(str, k) - 1)]

\* The loop of lines 104-112 over the remaining words
RECURSIVE WrapWords(_, _, _, _)
WrapWordsWide(words, cur, lines, maxChars) ==
    IF words = <<>> THEN [cur |-> cur, lines |-> lines]
    ELSE LET w == Head(words)
             test == IF cur # <<>> THEN cur \o <<" ">> \o w ELSE w
         IN  IF Len(test) > maxChars + 1 /\ cur # <<>>
             THEN WrapWords(Tail(words), w, Append(lines, cur), maxChars)
             ELSE WrapWords(Tail(words), test, lines, maxChars)
WrapWords(words, cur, lines, maxChars) ==
    IF words = <<>> THEN [cur |-> cur, lines |-> lines]
    ELSE LET w == Head(words)
             test == IF cur # <<>> THEN cur \o <<" ">> \o w ELSE w
         IN  IF Len(test) > maxChars /\ cur # <<>>
             THEN WrapWords(Tail(words), w, Append(lines, cur), maxChars)
             ELSE WrapWords(Tail(words), test, lines, maxChars)

\* wrap(str, maxPx, fontSize); maxPx100 is maxPx in hundredths of a pixel
wrapDropsLast(str, maxPx100, fontSize) ==
    LET maxChars == maxPx100 \div (fontSize * 57)
    IN  IF Len(str) <= maxChars THEN <<str>>
        ELSE WrapWords(Split(str), <<>>, <<>>, maxChars).lines
wrap(str, maxPx100, fontSize) ==
    LET maxChars == maxPx100 \div (fontSize * 57)
    IN  IF Len(str) <= maxChars THEN <<str>>
        ELSE LET done == WrapWords(Split(str), <<>>, <<>>, maxChars)
             IN  IF done.cur # <<>> THEN Append(done.lines, done.cur) ELSE done.lines

\* ------------------------------------------------------------------------
\* Step dimension helpers (lengths in pixels)
\* ------------------------------------------------------------------------
Max(a, b) == IF a >= b THEN a ELSE b

hasExpandable(step) == Len(step.hiddenActions) > 0 \/ step.errorLoop

stepDimsNoMinimum(step) ==
    LET idW100 == approxW(step.id, 10) + 1400
        indicatorW == IF hasExpandable(step) THEN 40 ELSE 0
        nameW100 == stepW * 100 - idW100 - indicatorW * 100 - 3200
        lines == wrap(step.name, nameW100, stepFontSz)
        nameH == Len(lines) * stepNameLineH
        h == stepPadTop + nameH + stepNameBadgeGap + stepBadgeRowH + stepPadBottom
    IN  [lines |-> lines, nameH |-> nameH, h |-> h]
stepDimsDropsLastLine(step) ==
    LET idW100 == approxW(step.id, 10) + 1400
        indicatorW == IF hasExpandable(step) THEN 40 ELSE 0
        nameW100 == stepW * 100 - idW100 - indicatorW * 100 - 3200
        lines == wrapDropsLast(step.name, nameW100, stepFontSz)
        nameH == Len(lines) * stepNameLineH
        h == stepPadTop + nameH + stepNameBadgeGap + stepBadgeRowH + stepPadBottom
    IN  [lines |-> lines, nameH |-> nameH, h |-> Max(h, stepMinH)]
stepDims(step) ==
    LET idW100 == approxW(step.id, 10) + 1400
        indicatorW == IF hasExpandable(step) THEN 40 ELSE 0
        nameW100 == stepW * 100 - idW100 - indicatorW * 100 - 3200
        lines == wrap(step.name, nameW100, stepFontSz)
        nameH == Len(lines) * stepNameLineH
        h == stepPadTop + nameH + stepNameBadgeGap + stepBadgeRowH + stepPadBottom
    IN  [lines |-> lines, nameH |-> nameH, h |-> Max(h, stepMinH)]

RECURSIVE ActionsH(_)
ActionsH(actions) ==
    IF actions = <<>> THEN 0
    ELSE Len(wrap(Head(actions), (stepW - 50) * 100, expActionFontSz)) * expActionLineH
         + expActionGap + ActionsH(Tail(actions))

expansionH(step) ==
    IF Len(step.hiddenActions) = 0 /\ ~step.errorLoop THEN 0
    ELSE expPadTop
         + (IF Len(step.hiddenActions) > 0
            THEN expLabelH + expLabelGap + ActionsH(step.hiddenActions) ELSE 0)
         + (IF step.errorLoop THEN 4 + expErrorH ELSE 0)
         + expPadBottom

\* ------------------------------------------------------------------------
\* PROCESS_MAP: the process descriptions the layout is computed for
\* ------------------------------------------------------------------------
Word(n) == [i \in 1..n |-> "a"]

\* A text of words of the given lengths separated by single spaces
RECURSIVE Text(_)
Text(lens) ==
    IF lens = <<>> THEN <<>>
    ELSE IF Len(lens) = 1 THEN Word(Head(lens))
    ELSE Word(Head(lens)) \o <<" ">> \o Text(Tail(lens))

\* A task with a one-line name and nothing to expand
StepPlain ==
    [ id |-> <<"1", ".", "1">>, name |-> Text(<<6, 4>>),
      isDecisionPoint |-> FALSE, decisionOutcome |-> FALSE,
      errorLoop |-> FALSE, hiddenActions |-> <<>> ]

\* A task with a two-line name, two hidden actions (one of them wraps) and
\* an error loop
StepRich ==
    [ id |-> <<"1", ".", "2">>, name |-> Text(<<9, 9, 9, 9, 9, 9, 9>>),
      isDecisionPoint |-> FALSE, decisionOutcome |-> FALSE,
      errorLoop |-> TRUE,
      hiddenActions |-> << Text(<<5, 5>>), Text(<<12, 12, 12, 12, 12, 12>>) >> ]

\* A decision whose label wraps to two lines
StepDecision ==
    [ id |-> <<"2", ".", "1">>, name |-> Text(<<9, 9, 9, 9, 9, 9>>),
      isDecisionPoint |-> TRUE, decisionOutcome |-> FALSE,
      errorLoop |-> FALSE, hiddenActions |-> <<>> ]

\* A task with an error loop and no hidden action
StepLoop ==
    [ id |-> <<"2", ".", "2">>, name |-> Text(<<7>>),
      isDecisionPoint |-> FALSE, decisionOutcome |-> FALSE,
      errorLoop |-> TRUE, hiddenActions |-> <<>> ]

\* A decision with a resolved outcome
StepResolved ==
    [ id |-> <<"3", ".", "1">>, name |-> Text(<<8, 3>>),
      isDecisionPoint |-> TRUE, decisionOutcome |-> TRUE,
      errorLoop |-> FALSE, hiddenActions |-> <<>> ]

\* A step id that no description holds
UnknownStepId == <<"9", ".", "9">>

ProcessMaps ==
    { << [steps |-> <<StepPlain, StepRich>>], [steps |-> <<StepDecision, StepLoop>>] >>,
      << [steps |-> <<StepRich>>], [steps |-> <<>>], [steps |-> <<StepResolved, StepPlain>>] >> }

RECURSIVE AllSteps(_)
AllSteps(phases) ==
    IF phases = <<>> THEN <<>> ELSE Head(phases).steps \o AllSteps(Tail(phases))

StepIds(phases) == {AllSteps(phases)[i].id : i \in 1..Len(AllSteps(phases))}

\* ------------------------------------------------------------------------
\* Layout.  Every length of a layout element is an integer number of
\* 1/YScale pixels: the reconciliation divides a deficit by the number of
\* gaps of a zone, and YScale makes these divisions exact.
\* ------------------------------------------------------------------------
\* The least common multiple of the numbers of gaps of a zone: a
\* description has at most four steps, a zone at most three gaps
GapLcm == 6

\* A zone of n > 1 members divides by n - 1, and it does so at most once:
\* after that it has its minimum height.
YScale == GapLcm ^ MaxZones

Px(n) == n * YScale

Element(type, step, phase, x, y, w, h, r, size, lines, isExpanded, expH) ==
    [ type |-> type, step |-> step, phase |-> phase,
      x |-> Px(x), y |-> Px(y), w |-> Px(w), h |-> Px(h), r |-> Px(r), size |-> Px(size),
      lines |-> lines, isExpanded |-> isExpanded, expH |-> Px(expH) ]

\* cx of line 153
CenterX == canvasPad + phasePadX + stepW \div 2

\* Lines 163-171: the diamond of a decision and the cursor below it
DecisionAdvanceWrong(lblH) == 0
DecisionAdvance(lblH) == decisionSize + lblH + 10

PlaceDecision(step, phase, y) ==
    LET lblLines == wrap(step.name, stepW * 65, 10)
        lblH == IF step.decisionOutcome THEN 2 * 13 + 4 ELSE Len(lblLines) * 13 + 4
    IN  [ elem |-> Element("decision", step.id, phase, CenterX, y + decisionSize \div 2,
                           0, 0, 0, decisionSize, lblLines, FALSE, 0),
          y |-> y + DecisionAdvance(lblH) ]

\* Lines 173-183: the box of a task and the cursor below it
PlaceTaskNoAdvance(step, phase, y, expanded) ==
    LET dims == stepDims(step)
        isExpanded == step.id \in expanded
        expH == IF isExpanded THEN expansionH(step) ELSE 0
    IN  [ elem |-> Element("task", step.id, phase, CenterX - stepW \div 2, y,
                           stepW, dims.h, 0, 0, dims.lines, isExpanded, expH),
          y |-> y + dims.h + stepGap ]
PlaceTaskAnyExpanded(step, phase, y, expanded) ==
    LET dims == stepDims(step)
        isExpanded == expanded # {}
        expH == IF isExpanded THEN expansionH(step) ELSE 0
    IN  [ elem |-> Element("task", step.id, phase, CenterX - stepW \div 2, y,
                           stepW, dims.h, 0, 0, dims.lines, isExpanded, expH),
          y |-> y + dims.h + expH + stepGap ]
PlaceTaskStateful(step, phase, y, expanded) ==
    LET dims == stepDims(step)
        isExpanded == step.id \in expanded /\ results = <<>>
        expH == IF isExpanded THEN expansionH(step) ELSE 0
    IN  [ elem |-> Element("task", step.id, phase, CenterX - stepW \div 2, y,
                           stepW, dims.h, 0, 0, dims.lines, isExpanded, expH),
          y |-> y + dims.h + expH + stepGap ]
PlaceTask(step, phase, y, expanded) ==
    LET dims == stepDims(step)
        isExpanded == step.id \in expanded
        expH == IF isExpanded THEN expansionH(step) ELSE 0
    IN  [ elem |-> Element("task", step.id, phase, CenterX - stepW \div 2, y,
                           stepW, dims.h, 0, 0, dims.lines, isExpanded, expH),
          y |-> y + dims.h + expH + stepGap ]

\* Lines 162-185: the elements of the steps of a phase, appended to elems,
\* and the cursor below them
RECURSIVE LayoutSteps(_, _, _, _, _)
AfterPlaced(steps, phase, expanded, elems, placed) ==
    LayoutSteps(Tail(steps), phase, placed.y, expanded, Append(elems, placed.elem))

LayoutSteps(steps, phase, y, expanded, elems) ==
    IF steps = <<>> THEN [elems |-> elems, y |-> y]
    ELSE IF Head(steps).isDecisionPoint
    THEN AfterPlaced(steps, phase, expanded, elems, PlaceDecision(Head(steps), phase, y))
    ELSE AfterPlaced(steps, phase, expanded, elems, PlaceTask(Head(steps), phase, y, expanded))

\* Lines 187-193: the band of a phase, from py0 to yEnd
Band(phase, py0, yEnd) ==
    Element("band", <<>>, phase, canvasPad, py0,
            PHASE_INNER_W + BAND_EXTRA, yEnd - py0, 0, 0, <<>>, FALSE, 0)

\* Lines 158-195
RECURSIVE LayoutPhases(_, _, _, _, _)
ClosePhaseSkipsEmpty(phases, phase, py0, expanded, inner) ==
    LayoutPhases(Tail(phases), phase + 1, inner.y + phasePadY + phaseGap, expanded,
                 IF Head(phases).steps = <<>> THEN inner.elems
                 ELSE Append(inner.elems, Band(phase, py0, inner.y + phasePadY)))
ClosePhase(phases, phase, py0, expanded, inner) ==
    LayoutPhases(Tail(phases), phase + 1, inner.y + phasePadY + phaseGap, expanded,
                 Append(inner.elems, Band(phase, py0, inner.y + phasePadY)))

LayoutPhases(phases, phase, y, expanded, elems) ==
    IF phases = <<>> THEN [elems |-> elems, y |-> y]
    ELSE ClosePhase(phases, phase, y, expanded,
                    LayoutSteps(Head(phases).steps, phase, y + phaseLabelH + phasePadY,
                                expanded, elems))

\* Lines 151-156 and 197-200: the start and end circles and the result
Circle(type, y) == Element(type, <<>>, 0, CenterX, y + circleR, 0, 0, circleR, 0, <<>>, FALSE, 0)

Finished(body) ==
    [ elems |-> Append(body.elems, Circle("end", body.y)),
      w |-> Px(FULL_W),
      h |-> Px(body.y + circleR * 2 + canvasPad),
      cx |-> Px(CenterX) ]

\* computeLayout() for PROCESS_MAP.phases and expandedSteps
computeLayout(phases, expanded) ==
    Finished(LayoutPhases(phases, 1, canvasPad + circleR * 2 + 18, expanded,
                          <<Circle("start", canvasPad)>>))

topY(e) ==
    IF e.type \in {"start", "end"} THEN e.y - e.r
    ELSE IF e.type = "task" THEN e.y
    ELSE IF e.type = "decision" THEN e.y - e.size \div 2
    ELSE e.y

bottomY(e) ==
    IF e.type \in {"start", "end"} THEN e.y + e.r
    ELSE IF e.type = "task" THEN e.y + e.h + e.expH
    ELSE IF e.type = "decision" THEN e.y + e.size \div 2
    ELSE e.y

\* ------------------------------------------------------------------------
\* Zone height adjustment for estimation cards
\* ------------------------------------------------------------------------
\* Array.prototype.sort with the comparator (a, b) => key(a) - key(b): a
\* stable insertion sort
RECURSIVE InsertSorted(_, _, _)
InsertSorted(Key(_), sorted, e) ==
    IF sorted = <<>> THEN <<e>>
    ELSE IF Key(e) < Key(Head(sorted)) THEN <<e>> \o sorted
    ELSE <<Head(sorted)>> \o InsertSorted(Key, Tail(sorted), e)

RECURSIVE SortBy(_, _)
SortBy(Key(_), arr) ==
    IF arr = <<>> THEN <<>>
    ELSE InsertSorted(Key, SortBy(Key, SubSeq(arr, 1, Len(arr) - 1)), arr[Len(arr)])

\* Lines 214-220: the step elements of a zone, sorted by their top
ZoneStepElems(layout, zone) ==
    SortBy(topY, SelectSeq(layout.elems,
                           LAMBDA e : e.type \in {"task", "decision"} /\ e.step \in zone.stepIds))

\* Line 236
GapExtraWrong(delta, n) == delta \div n
GapExtra(delta, n) == delta \div (n - 1)

BoundaryY(b) == b.y

\* Lines 234-246: the shift boundaries of a zone that is short by delta
BoundariesBelowOnly(stepElems, delta) ==
    <<[y |-> bottomY(stepElems[Len(stepElems)]), cumulShift |-> delta]>>
Boundaries(stepElems, delta) ==
    LET n == Len(stepElems)
        inner == IF n > 1
                 THEN [i \in 1..(n - 1) |->
                          [y |-> bottomY(stepElems[i]), cumulShift |-> i * GapExtra(delta, n)]]
                 ELSE <<>>
    IN  SortBy(BoundaryY, Append(inner, [y |-> bottomY(stepElems[n]), cumulShift |-> delta]))

\* Lines 252-255 and 261-263: the largest cumulative shift among the
\* boundaries strictly above a vertical position
RECURSIVE ShiftAtWrong(_, _)
ShiftAtWrong(pos, boundaries) ==
    IF boundaries = <<>> THEN 0
    ELSE IF pos > Head(boundaries).y THEN Head(boundaries).cumulShift
    ELSE ShiftAtWrong(pos, Tail(boundaries))
RECURSIVE ShiftAt(_, _)
ShiftAt(pos, boundaries) ==
    IF boundaries = <<>> THEN 0
    ELSE LET below == ShiftAt(pos, Tail(boundaries))
         IN  IF pos > Head(boundaries).y THEN Max(below, Head(boundaries).cumulShift)
             ELSE below

\* Lines 248-266: one element moved for the boundaries of a zone
ShiftElemEndStays(e, boundaries) ==
    IF e.type = "band"
    THEN LET topShift == ShiftAt(e.y, boundaries)
             botShift == ShiftAt(e.y + e.h, boundaries)
         IN  [e EXCEPT !.y = @ + topShift, !.h = @ + (botShift - topShift)]
    ELSE LET shift == IF e.type = "end" THEN 0 ELSE ShiftAt(topY(e), boundaries)
         IN  IF shift > 0 THEN [e EXCEPT !.y = @ + shift] ELSE e

ShiftElemBandsFixed(e, boundaries) ==
    IF e.type = "band"
    THEN e
    ELSE LET shift == ShiftAt(topY(e), boundaries)
         IN  IF shift > 0 THEN [e EXCEPT !.y = @ + shift] ELSE e

ShiftElemBandRigid(e, boundaries) ==
    IF e.type = "band"
    THEN [e EXCEPT !.y = @ + ShiftAt(e.y, boundaries)]
    ELSE LET shift == ShiftAt(topY(e), boundaries)
         IN  IF shift > 0 THEN [e EXCEPT !.y = @ + shift] ELSE e
ShiftElemTasksOnly(e, boundaries) ==
    IF e.type = "band"
    THEN LET topShift == ShiftAt(e.y, boundaries)
             botShift == ShiftAt(e.y + e.h, boundaries)
         IN  [e EXCEPT !.y = @ + topShift, !.h = @ + (botShift - topShift)]
    ELSE LET shift == ShiftAt(topY(e), boundaries)
         IN  IF shift > 0 /\ e.type = "task" THEN [e EXCEPT !.y = @ + shift] ELSE e
ShiftElem(e, boundaries) ==
    IF e.type = "band"
    THEN LET topShift == ShiftAt(e.y, boundaries)
             botShift == ShiftAt(e.y + e.h, boundaries)
         IN  [e EXCEPT !.y = @ + topShift, !.h = @ + (botShift - topShift)]
    ELSE LET shift == ShiftAt(topY(e), boundaries)
         IN  IF shift > 0 THEN [e EXCEPT !.y = @ + shift] ELSE e

\* Lines 222-228: what a zone lacks to its required minimum (0: nothing)
ZoneDelta(layout, zone, reqMin) ==
    LET stepElems == ZoneStepElems(layout, zone)
    IN  IF reqMin <= 0 \/ stepElems = <<>> THEN 0
        ELSE LET yMin == topY(stepElems[1])
                 yMax == bottomY(stepElems[Len(stepElems)])
                 currentH == yMax - yMin
             IN  IF currentH >= reqMin THEN 0 ELSE reqMin - currentH

\* Line 267
GrownHeightWrong(h, delta) == delta
GrownHeight(h, delta) == h + delta

\* Lines 209-267: the body of the loop for one zone
AdjustZone(layout, zone, reqMin) ==
    LET delta == ZoneDelta(layout, zone, reqMin)
        stepElems == ZoneStepElems(layout, zone)
        boundaries == Boundaries(stepElems, delta)
    IN  IF delta = 0 THEN layout
        ELSE [ layout EXCEPT
                 !.elems = [i \in 1..Len(layout.elems) |-> ShiftElem(layout.elems[i], boundaries)],
                 !.h = GrownHeight(@, delta) ]

\* adjustLayoutForZoneMinHeights(layout, zones, minHeights): the layouts
\* before the first zone and after each zone, in order
RECURSIVE AdjustSteps(_, _, _, _)
AdjustStepsAbortsAtEmpty(layout, zones, minHeights, idx) ==
    IF idx > Len(zones) THEN <<layout>>
    ELSE IF ZoneStepElems(layout, zones[idx]) = <<>>
         THEN <<layout>> \o [i \in 1..(Len(zones) - idx + 1) |-> layout]
    ELSE <<layout>> \o AdjustSteps(AdjustZone(layout, zones[idx], minHeights[idx]),
                                   zones, minHeights, idx + 1)
AdjustSteps(layout, zones, minHeights, idx) ==
    IF idx > Len(zones) THEN <<layout>>
    ELSE <<layout>> \o AdjustSteps(AdjustZone(layout, zones[idx], minHeights[idx]),
                                   zones, minHeights, idx + 1)

adjustLayoutForZoneMinHeights(layout, zones, minHeights) ==
    LET steps == AdjustSteps(layout, zones, minHeights, 1)
    IN  steps[Len(steps)]

\* ------------------------------------------------------------------------
\* Render and interactivity
\* ------------------------------------------------------------------------
NoLayout == [elems |-> <<>>, w |-> 0, h |-> 0, cx |-> 0]

\* render(containerId) without zones: both option fields are undefined
NoOptions ==
    [ hasZones |-> FALSE, estimationZones |-> <<>>,
      hasMinHeights |-> FALSE, zoneMinHeights |-> <<>> ]

NoClick == [step |-> <<>>, layout |-> NoLayout, again |-> FALSE]

\* Lines 682-685 of internalRender: the layout is reconciled when the
\* options name both zones and minimum heights
Adjusted(layout, options) ==
    IF options.hasMinHeights /\ options.hasZones
    THEN adjustLayoutForZoneMinHeights(layout, options.estimationZones, options.zoneMinHeights)
    ELSE layout

\* Lines 680-687 of internalRender: the layout stored in lastLayout
InternalRender(phases, expanded, options) ==
    Adjusted(computeLayout(phases, expanded), options)

\* Lines 722-726: the click handler of a task toggles its step
ToggledWrong(expanded, sid) == expanded \cup {sid}
Toggled(expanded, sid) ==
    IF sid \in expanded THEN expanded \ {sid} ELSE expanded \cup {sid}

\* Lines 703-719: the steps whose task box has a click handler
ClickableSteps(phases) ==
    { AllSteps(phases)[i].id : i \in { j \in 1..Len(AllSteps(phases)) :
          /\ ~AllSteps(phases)[j].isDecisionPoint
          /\ hasExpandable(AllSteps(phases)[j]) } }

\* The step sets a caller names as estimation zones: runs of steps, steps
\* that are not neighbours, and a set that names no step of the map.
ZoneChoices(phases) ==
    LET steps == AllSteps(phases)
        n == Len(steps)
    IN  { [stepIds |-> {steps[1].id, steps[2].id}],
          [stepIds |-> {steps[n].id}],
          [stepIds |-> {steps[1].id, steps[n].id}],
          [stepIds |-> StepIds(phases)],
          [stepIds |-> {UnknownStepId}] }

\* The minimum heights a caller asks for, in pixels (0: none)
MinHeightChoices == {0, 150, 900}

\* The options of a render call that names zones and their minimum heights
ZoneOptions(phases) ==
    UNION { { [ hasZones |-> TRUE, estimationZones |-> zones,
                hasMinHeights |-> TRUE, zoneMinHeights |-> [i \in 1..k |-> Px(mins[i])] ] :
                zones \in [1..k -> ZoneChoices(phases)],
                mins \in [1..k -> MinHeightChoices] } : k \in 0..MaxZones }

\* The render calls of the estimation page: the map alone, the map with
\* the zones of its estimation blocks (blocks of consecutive steps, in flow
\* order), and the map with these zones and the minimum heights measured
\* from the cards.
PageZones(phases) ==
    LET steps == AllSteps(phases)
    IN  << [stepIds |-> {steps[1].id, steps[2].id}], [stepIds |-> {steps[Len(steps)].id}] >>

RenderChoices(phases) ==
    {NoOptions}
    \cup {[NoOptions EXCEPT !.hasZones = TRUE, !.estimationZones = PageZones(phases)]}
    \cup { [ hasZones |-> TRUE, estimationZones |-> PageZones(phases),
             hasMinHeights |-> TRUE,
             zoneMinHeights |-> [i \in 1..Len(PageZones(phases)) |-> Px(mins[i])] ] :
             mins \in [1..Len(PageZones(phases)) -> MinHeightChoices] }

\* ProcessMapSVG.render(containerId, options)
Render(options) ==
    /\ currentOptions' = options
    /\ lastLayout' = InternalRender(processMap, expandedSteps, options)
    /\ beforeClick' = NoClick
    /\ UNCHANGED <<processMap, expandedSteps, passLayouts>>

\* A click on the task box of a step (lines 720-728)
ClickStep(sid) ==
    /\ lastLayout # NoLayout
    /\ sid \in ClickableSteps(processMap)
    /\ expandedSteps' = Toggled(expandedSteps, sid)
    /\ lastLayout' = InternalRender(processMap, expandedSteps', currentOptions)
    /\ beforeClick' = [step |-> sid, layout |-> lastLayout, again |-> (beforeClick.step = sid)]
    /\ UNCHANGED <<processMap, currentOptions, passLayouts>>

\* adjustLayoutForZoneMinHeights applied to the layout of the last pass
Reconcile ==
    /\ Len(passLayouts) <= MaxPasses
    /\ passLayouts' = Append(passLayouts,
           adjustLayoutForZoneMinHeights(passLayouts[Len(passLayouts)],
               currentOptions.estimationZones, currentOptions.zoneMinHeights))
    /\ UNCHANGED <<processMap, expandedSteps, currentOptions, lastLayout, beforeClick>>

\* The layout engine called on its own, MaxCalls times with the same
\* description and the same expansions
EngineCall ==
    /\ args.op = "computeLayout"
    /\ Len(results) < MaxCalls
    /\ results' = Append(results, computeLayout(processMap, expandedSteps))
    /\ UNCHANGED <<processMap, expandedSteps, currentOptions, lastLayout, beforeClick,
                   passLayouts, args, stale>>

\* wrap called on its own with the arguments of args
WrapCall ==
    /\ args.op = "wrap"
    /\ results = <<>>
    /\ results' = <<wrap(args.str, args.maxPx100, args.fontSize)>>
    /\ UNCHANGED <<rendererVars, args, stale, state>>

\* stepDims called on its own, on each of the steps of args in turn
DimsCall ==
    /\ args.op = "stepDims"
    /\ Len(results) < Len(args.steps)
    /\ results' = Append(results, stepDims(args.steps[Len(results) + 1]))
    /\ UNCHANGED <<rendererVars, args, stale, state>>

\* The layout engine called for an ExpansionState, and called again after
\* the caller has added the step of args to it
ExpandCall ==
    /\ args.op = "expand"
    /\ Len(results) < 2
    /\ expandedSteps' = IF results = <<>> THEN expandedSteps
                        ELSE expandedSteps \cup {args.step}
    /\ results' = Append(results, computeLayout(processMap, expandedSteps'))
    /\ UNCHANGED <<processMap, currentOptions, lastLayout, beforeClick,
                   passLayouts, args, stale>>

\* blockRandomize called on its own, on the log and the cache of the state
RandomizeCall ==
    /\ args.op = "blockRandomize"
    /\ results = <<>>
    /\ \E shuffled \in ShuffledBlocks, coin \in CoinDraws :
           /\ results' = <<BlockRandomize(sessions, currentBlock, shuffled, coin).label>>
           /\ currentBlock' = BlockRandomize(sessions, currentBlock, shuffled, coin).cache
    /\ UNCHANGED <<sessions, response, restarts, races, estimations, rendererVars, args, stale, state>>

\* ------------------------------------------------------------------------
\* Client: the pages of app.js
\* ------------------------------------------------------------------------
\* The two app.js of the repository: the one that shows the detailed
\* condition phase by phase (part_000) and the one that shows it on one page
\* next to the map (part_004).
Apps == {"part_000", "part_004"}

\* A property that was never set, and the state of a page that is not open
Undefined == "undefined"
NoState == [app |-> NoValue]

\* PROCESS_MAP.phases[i].estimationBlocks: the ids of the first block of the
\* first phases of process-data.js
FirstBlocks ==
    <<"entering_personal_details", "reading_eligibility",
      "entering_vehicle_info", "declaration_submit">>

EstimationPhases == [p \in 1..MaxPhases |-> <<FirstBlocks[p]>>]

BlocksOf(phaseIndex) == {EstimationPhases[phaseIndex + 1][k] : k \in 1..Len(EstimationPhases[phaseIndex + 1])}

DetailedBlocks == UNION {BlocksOf(i) : i \in 0..(Len(EstimationPhases) - 1)}

BlockIds == DetailedBlocks \cup {"overall"}

\* What parseInt(input.value) gives for a number typed (written as its
\* decimal string); an input that is cleared gives NaN, stored as null.
Numbers == {"0"}
InputValues == Numbers \cup {NoValue}

\* data-level of the confidence button clicked
Levels == {"3"}

\* state.estimates[blockId] before any input: est.minutes, est.seconds and
\* est.confidence are undefined, as they are when est itself is.
NoEstimate == [minutes |-> Undefined, seconds |-> Undefined, confidence |-> Undefined]

\* x !== null && x !== undefined
HasValue(x) == x # NoValue /\ x # Undefined

\* The checks of one block in validateAllEstimates and validatePhaseEstimates
BlockValid(est) ==
    /\ HasValue(est.minutes) \/ HasValue(est.seconds)
    /\ est.confidence # Undefined

validateAllEstimates(estimates) == \A b \in DetailedBlocks : BlockValid(estimates[b])

validatePhaseEstimates(estimates, phaseIndex) ==
    \A b \in BlocksOf(phaseIndex) : BlockValid(estimates[b])

\* The checks of the click handler of simple-submit
SimpleValid(est) ==
    /\ ~ \/ est.minutes = NoValue /\ est.seconds = NoValue
         \/ est.minutes = Undefined /\ est.seconds = Undefined
    /\ est.confidence # Undefined

showPage(s, pageId) == [s EXCEPT !.currentPage = pageId]

renderPhase(s, phaseIndex) == [s EXCEPT !.currentPhaseIndex = phaseIndex]

\* The blocks whose inputs and confidence buttons are on the page shown
VisibleBlocks ==
    IF state.currentPage = "simple-estimation" THEN {"overall"}
    ELSE IF state.currentPage # "estimation" THEN {}
    ELSE IF state.app = "part_000" THEN BlocksOf(state.currentPhaseIndex)
    ELSE DetailedBlocks

ClientFrame == UNCHANGED <<serverVars, rendererVars, callVars>>

\* consent-continue is clicked, the box checked or not
ConsentContinue ==
    /\ state.currentPage = "consent"
    /\ \E checked \in BOOLEAN :
           state' = IF checked THEN showPage(state, "intro") ELSE state
    /\ ClientFrame

\* intro-continue is clicked
IntroContinue ==
    /\ state.currentPage = "intro"
    /\ state' = IF state.condition = "simple"
                THEN showPage(state, "simple-estimation")
                ELSE IF state.app = "part_000"
                THEN renderPhase(showPage(state, "estimation"), 0)
                ELSE showPage(state, "estimation")
    /\ ClientFrame

\* The input event of a minutes or seconds field: a number is typed or the
\* field is cleared
EstimationInput ==
    /\ \E blockId \in VisibleBlocks, unit \in {"minutes", "seconds"}, val \in InputValues :
           state' = [state EXCEPT !.estimates[blockId][unit] = val]
    /\ ClientFrame

\* A confidence button is clicked
ConfidenceClick ==
    /\ \E blockId \in VisibleBlocks, level \in Levels :
           state' = [state EXCEPT !.estimates[blockId].confidence = level]
    /\ ClientFrame

\* part_000: prev-phase is clicked
PrevPhase ==
    /\ state.app = "part_000"
    /\ state.currentPage = "estimation"
    /\ state.currentPhaseIndex > 0
    /\ state' = renderPhase(state, state.currentPhaseIndex - 1)
    /\ ClientFrame

\* part_000: next-phase is clicked
NextPhase ==
    /\ state.app = "part_000"
    /\ state.currentPage = "estimation"
    /\ state.currentPhaseIndex < Len(EstimationPhases) - 1
    /\ state' = IF validatePhaseEstimates(state.estimates, state.currentPhaseIndex)
                THEN renderPhase(state, state.currentPhaseIndex + 1)
                ELSE state
    /\ ClientFrame

\* part_000: go-summary is clicked on the last phase
GoSummary ==
    /\ state.app = "part_000"
    /\ state.currentPage = "estimation"
    /\ state.currentPhaseIndex = Len(EstimationPhases) - 1
    /\ state' = IF validatePhaseEstimates(state.estimates, state.currentPhaseIndex)
                THEN showPage(state, "summary")
                ELSE state
    /\ ClientFrame

\* part_000: an item of the phase navigation is clicked
PhaseNavClick ==
    /\ state.app = "part_000"
    /\ state.currentPage = "estimation"
    /\ \E phase \in 0..(Len(EstimationPhases) - 1) : state' = renderPhase(state, phase)
    /\ ClientFrame

\* part_004: detailed-submit is clicked
DetailedSubmit ==
    /\ state.app = "part_004"
    /\ state.currentPage = "estimation"
    /\ state' = IF validateAllEstimates(state.estimates)
                THEN showPage(state, "summary")
                ELSE state
    /\ ClientFrame

\* simple-submit is clicked
SimpleSubmit ==
    /\ state.currentPage = "simple-estimation"
    /\ state' = IF SimpleValid(state.estimates["overall"])
                THEN showPage(state, "demographics")
                ELSE state
    /\ ClientFrame

\* summary-back is clicked
SummaryBack ==
    /\ state.currentPage = "summary"
    /\ state' = IF state.app = "part_000"
                THEN renderPhase(showPage(state, "estimation"), Len(EstimationPhases) - 1)
                ELSE showPage(state, "estimation")
    /\ ClientFrame

\* summary-continue is clicked
SummaryContinue ==
    /\ state.currentPage = "summary"
    /\ state' = showPage(state, "demographics")
    /\ ClientFrame

NoResponse == [session_id |-> 0, condition |-> NoValue, kind |-> NoValue]

\* No function of the renderer is called on its own, no session has aged
NoArgs == [op |-> NoValue]

NoCalls ==
    /\ args = NoArgs
    /\ results = <<>>
    /\ stale = 0
    /\ state = NoState

ServerInit ==
    /\ sessions = <<>>
    /\ currentBlock = NullBlock
    /\ response = NoResponse
    /\ restarts = [count |-> 0, midBlock |-> FALSE]
    /\ races = <<>>
    /\ estimations = <<>>

\* The page before the first render: the map is loaded, nothing is drawn
RendererInit ==
    /\ processMap \in ProcessMaps
    /\ expandedSteps = {}
    /\ currentOptions = NoOptions
    /\ lastLayout = NoLayout
    /\ beforeClick = NoClick
    /\ passLayouts = <<>>

\* The renderer of a page that is not part of the run
RendererIdle ==
    /\ processMap = <<>>
    /\ expandedSteps = {}
    /\ currentOptions = NoOptions
    /\ lastLayout = NoLayout
    /\ beforeClick = NoClick
    /\ passLayouts = <<>>

\* The inputs of a reconciliation: a computed layout, zones, minimum heights
ReconcileInit ==
    /\ processMap \in ProcessMaps
    /\ expandedSteps \in SUBSET ClickableSteps(processMap)
    /\ currentOptions \in ZoneOptions(processMap)
    /\ lastLayout = NoLayout
    /\ beforeClick = NoClick
    /\ passLayouts = <<computeLayout(processMap, expandedSteps)>>

vars == <<serverVars, rendererVars, callVars, state>>

Init == ServerInit /\ RendererIdle /\ NoCalls

\* A request without a valid CONDITION: the handler draws from Math.random
RandomizedCreateStep ==
    /\ \E pid \in AnonymousPids, requested \in RequestConditions \ {"detailed", "simple"},
          shuffled \in ShuffledBlocks, coin \in CoinDraws :
           SessionCreate(pid, requested, shuffled, coin)
    /\ UNCHANGED <<rendererVars, callVars, state>>

\* A request with a valid CONDITION: line 116 is skipped, no draw is made
ForcedCreateStep ==
    /\ \E pid \in AnonymousPids, requested \in {"detailed", "simple"} :
           SessionCreate(pid, requested, UnshuffledBlock, "detailed")
    /\ UNCHANGED <<rendererVars, callVars, state>>

CreateStep ==
    \/ RandomizedCreateStep
    \/ ForcedCreateStep

RestartStep == Restart /\ UNCHANGED <<rendererVars, callVars, state>>

RaceStep ==
    /\ \E shuffled1 \in ShuffledBlocks, coin1 \in CoinDraws,
          shuffled2 \in ShuffledBlocks, coin2 \in CoinDraws :
           RaceCreate(shuffled1, coin1, shuffled2, coin2)
    /\ UNCHANGED <<rendererVars, callVars, state>>

Next ==
    \/ CreateStep
    \/ RestartStep

Spec == Init /\ [][Next]_vars

NextRace ==
    \/ RandomizedCreateStep
    \/ RaceStep

SpecRace == Init /\ [][NextRace]_vars

\* The renderer of one page: render calls of the page and clicks on steps
RenderStep ==
    /\ \E options \in RenderChoices(processMap) : Render(options)
    /\ UNCHANGED <<serverVars, callVars, state>>

ClickStepStep ==
    /\ \E sid \in StepIds(processMap) : ClickStep(sid)
    /\ UNCHANGED <<serverVars, callVars, state>>

InitLayout == ServerInit /\ RendererInit /\ NoCalls

NextLayout ==
    \/ RenderStep
    \/ ClickStepStep

SpecLayout == InitLayout /\ [][NextLayout]_vars

InitReconcile == ServerInit /\ ReconcileInit /\ NoCalls

NextReconcile == Reconcile /\ UNCHANGED <<serverVars, callVars, state>>

SpecReconcile == InitReconcile /\ [][NextReconcile]_vars

\* A description of two phases of one step each
OneStepPhases == << [steps |-> <<StepPlain>>], [steps |-> <<StepLoop>>] >>

EngineMaps == ProcessMaps \cup {OneStepPhases}

\* The inputs of the layout engine: a description and an ExpansionState,
\* which may name a step the description does not hold
InitEngine ==
    /\ ServerInit
    /\ processMap \in EngineMaps
    /\ expandedSteps \in SUBSET (StepIds(processMap) \cup {UnknownStepId})
    /\ currentOptions = NoOptions
    /\ lastLayout = NoLayout
    /\ beforeClick = NoClick
    /\ passLayouts = <<>>
    /\ args = [op |-> "computeLayout"]
    /\ results = <<>>
    /\ stale = 0
    /\ state = NoState

NextEngine == EngineCall /\ UNCHANGED <<serverVars, state>>

SpecEngine == InitEngine /\ [][NextEngine]_vars

\* Thirty minutes have passed since the oldest session that was younger
\* was started (started_at of line 127): no handler runs, the log is as it was
Age ==
    /\ stale < Len(sessions)
    /\ stale' = stale + 1
    /\ UNCHANGED <<serverVars, rendererVars, args, results, state>>

\* The server while sessions are created and time passes
NextAging ==
    \/ RandomizedCreateStep
    \/ Age

SpecAging == Init /\ [][NextAging]_vars

\* The strings wrap is called with: every string of at most MaxLen
\* characters over two letters and the space, and three longer texts
Alphabet == {"a", "b", " "}

Strings(n) == UNION {[1..k -> Alphabet] : k \in 0..n}

LongStrings == {Text(<<1, 1, 4>>), Text(<<4, 1, 1>>), Text(<<2, 5, 1, 1>>)}

\* Positive budgets, in hundredths of a pixel: 6, 12, 18 and 24 px are 0 to
\* 4 characters of the font sizes the renderer wraps with
WrapBudgets == {600, 1200, 1800, 2400}

WrapFontSizes == {10, stepFontSz}

InitWrap ==
    /\ ServerInit
    /\ RendererIdle
    /\ args \in [op : {"wrap"}, str : Strings(MaxLen) \cup LongStrings,
                  maxPx100 : WrapBudgets, fontSize : WrapFontSizes]
    /\ results = <<>>
    /\ stale = 0
    /\ state = NoState

NextWrap == WrapCall /\ UNCHANGED <<serverVars, state>>

SpecWrap == InitWrap /\ [][NextWrap]_vars

\* The names stepDims is called with: texts of at most MaxWords words of
\* 8, 30 or 62 characters (a name line holds 55 to 60 characters)
WordLens == {8, 30, 62}

Names == {Text(lens) : lens \in UNION {[1..k -> WordLens] : k \in 0..MaxWords}}

\* A name of spaces only
Blank(n) == [i \in 1..n |-> " "]

\* Pairs of names, the second at least as long as the first
NamePairs ==
    {pair \in Names \X Names : Len(pair[1]) <= Len(pair[2]) /\ pair[1] # pair[2]}
        \cup { <<Text(<<>>), Blank(61)>>, <<Text(<<8>>), Blank(61)>>,
               <<Blank(61), Blank(61) \o Text(<<30, 30>>)>> }

Task(id, name, errorLoop) ==
    [ id |-> id, name |-> name, isDecisionPoint |-> FALSE, decisionOutcome |-> FALSE,
      errorLoop |-> errorLoop, hiddenActions |-> <<>> ]

\* Two steps that differ only in name
InitDims ==
    /\ ServerInit
    /\ RendererIdle
    /\ \E pair \in NamePairs, errorLoop \in BOOLEAN :
           args = [op |-> "stepDims",
                   steps |-> <<Task(StepPlain.id, pair[1], errorLoop),
                               Task(StepPlain.id, pair[2], errorLoop)>>]
    /\ results = <<>>
    /\ stale = 0
    /\ state = NoState

NextDims == DimsCall /\ UNCHANGED <<serverVars, state>>

SpecDims == InitDims /\ [][NextDims]_vars

\* The ids of the tasks of a description
TaskIds(phases) ==
    { AllSteps(phases)[i].id :
          i \in {j \in 1..Len(AllSteps(phases)) : ~AllSteps(phases)[j].isDecisionPoint} }

\* A description, an ExpansionState and a task that it does not hold
InitExpand ==
    /\ ServerInit
    /\ processMap \in EngineMaps
    /\ expandedSteps \in SUBSET (StepIds(processMap) \cup {UnknownStepId})
    /\ currentOptions = NoOptions
    /\ lastLayout = NoLayout
    /\ beforeClick = NoClick
    /\ passLayouts = <<>>
    /\ \E sid \in TaskIds(processMap) \ expandedSteps : args = [op |-> "expand", step |-> sid]
    /\ results = <<>>
    /\ stale = 0
    /\ state = NoState

NextExpand == ExpandCall /\ UNCHANGED <<serverVars, state>>

SpecExpand == InitExpand /\ [][NextExpand]_vars

\* The server while participants come, come back and submit.  The request
\* of each step is kept in args.
HasRecord(pid) == \E i \in 1..Len(sessions) : sessions[i].prolific_pid = pid /\ pid \notin Falsy

\* A participant comes without a CONDITION: a block is drawn where a block
\* starts (without a restart the coin of the fallback is never flipped)
ParticipantRandomizedStep ==
    /\ \E pid \in Pids, shuffled \in ShuffledBlocks :
           /\ Len(sessions) < MaxParticipants \/ HasRecord(pid)
           /\ Len(Assigned(sessions)) % BLOCK_SIZE = 0 \/ shuffled = UnshuffledBlock
           /\ SessionCreate(pid, NoValue, shuffled, CONDITIONS[1])
           /\ args' = [op |-> "session/create", prolific_pid |-> pid, condition |-> NoValue]
    /\ UNCHANGED <<rendererVars, results, stale, state>>

\* A participant comes with a CONDITION in the URL
ParticipantForcedStep ==
    /\ \E pid \in Pids, requested \in {"detailed", "simple"} :
           /\ Len(sessions) < MaxParticipants \/ HasRecord(pid)
           /\ SessionCreate(pid, requested, UnshuffledBlock, CONDITIONS[1])
           /\ args' = [op |-> "session/create", prolific_pid |-> pid, condition |-> requested]
    /\ UNCHANGED <<rendererVars, results, stale, state>>

ParticipantCreateStep ==
    \/ ParticipantRandomizedStep
    \/ ParticipantForcedStep

\* The client submits with the session id and the condition it was given,
\* or with no id, or with an id the log does not hold
SubmitStep ==
    /\ \E session_id \in SubmittedIds :
           /\ session_id <= Len(sessions) + 1
           /\ EstimationSubmit(session_id,
                  IF session_id \in 1..Len(sessions)
                  THEN sessions[session_id].condition ELSE NoValue)
           /\ args' = [op |-> "estimation/submit", session_id |-> session_id]
    /\ UNCHANGED <<rendererVars, results, stale, state>>

NextParticipants == ParticipantCreateStep \/ SubmitStep

SpecParticipants == Init /\ [][NextParticipants]_vars

\* The logs blockRandomize is called with: at most MaxLog randomized
\* sessions with any labels, alone or after a forced session
LabelLogs == UNION {[1..n -> {"detailed", "simple"}] : n \in 0..MaxLog}

RecordsOf(labels) == [i \in 1..Len(labels) |-> SessionRecord(NoValue, labels[i], NoValue)]

Logs ==
    {RecordsOf(labels) : labels \in LabelLogs}
        \cup {<<SessionRecord(NoValue, "detailed", "detailed")>> \o RecordsOf(labels) :
                 labels \in LabelLogs}

\* The values of blockRandomize._currentBlock: null, a permuted block, and
\* an array that is not a block
Caches == {NullBlock} \cup ShuffledBlocks \cup {<<"detailed", "simple">>}

InitRandomize ==
    /\ sessions \in Logs
    /\ currentBlock \in Caches
    /\ response = NoResponse
    /\ restarts = [count |-> 0, midBlock |-> FALSE]
    /\ races = <<>>
    /\ estimations = <<>>
    /\ RendererIdle
    /\ args = [op |-> "blockRandomize"]
    /\ results = <<>>
    /\ stale = 0
    /\ state = NoState

NextRandomize == RandomizeCall

SpecRandomize == InitRandomize /\ [][NextRandomize]_vars

\* The client from the consent page on: the app.js that is loaded and the
\* condition the server has assigned are any of the two
ClientInit ==
    state \in [ app : Apps,
                condition : {"detailed", "simple"},
                currentPage : {"consent"},
                currentPhaseIndex : {0},
                estimates : {[b \in BlockIds |-> NoEstimate]} ]

InitClient ==
    /\ ServerInit
    /\ RendererIdle
    /\ args = NoArgs
    /\ results = <<>>
    /\ stale = 0
    /\ ClientInit

NextClient ==
    \/ ConsentContinue
    \/ IntroContinue
    \/ EstimationInput
    \/ ConfidenceClick
    \/ PrevPhase
    \/ NextPhase
    \/ GoSummary
    \/ PhaseNavClick
    \/ DetailedSubmit
    \/ SimpleSubmit
    \/ SummaryBack
    \/ SummaryContinue

SpecClient == InitClient /\ [][NextClient]_vars

\* ------------------------------------------------------------------------
\* Properties of the block randomizer
\* ------------------------------------------------------------------------
Labels == {CONDITIONS[i] : i \in 1..Len(CONDITIONS)}

\* Number of occurrences of a label in positions from..to of the assignments
CountIn(assigned, from, to, label) ==
    Cardinality({i \in from..to : assigned[i] = label})

\* Difference of the two label counts in the first n assignments
Imbalance(assigned, n) ==
    LET d == CountIn(assigned, 1, n, "detailed") - CountIn(assigned, 1, n, "simple")
    IN  IF d < 0 THEN -d ELSE d

Sequential == restarts.count = 0 /\ races = <<>>

\* C1: in a run without restart and without race, every complete block
\* of BLOCK_SIZE consecutive counted (non-forced) assignments, positions
\* 4k .. 4k+3, holds each label exactly BLOCK_SIZE/2 times, and the two
\* counts are equal at every 4th participant.
C1_CompleteBlocksBalanced ==
    Sequential =>
        LET assigned == Assigned(sessions)
            blocks == Len(assigned) \div BLOCK_SIZE
        IN  /\ \A k \in 0..(blocks - 1) : \A c \in Labels :
                   CountIn(assigned, BLOCK_SIZE * k + 1, BLOCK_SIZE * k + BLOCK_SIZE, c)
                       = BLOCK_SIZE \div 2
            /\ Len(assigned) % BLOCK_SIZE = 0 => Imbalance(assigned, Len(assigned)) = 0

\* Two complete blocks with different orders have been assigned.
C1_Witness ==
    LET assigned == Assigned(sessions)
    IN  /\ Sequential
        /\ Len(assigned) = 2 * BLOCK_SIZE
        /\ SubSeq(assigned, 1, BLOCK_SIZE) # SubSeq(assigned, BLOCK_SIZE + 1, 2 * BLOCK_SIZE)

\* C5 as stated: in a run without restart and without race, every
\* contiguous window of 4 consecutive assignments, at any offset, holds
\* exactly 2 of each label.
C5_EveryWindowBalanced ==
    Sequential =>
        LET assigned == Assigned(sessions)
        IN  \A o \in 0..(Len(assigned) - BLOCK_SIZE) : \A c \in Labels :
                CountIn(assigned, o + 1, o + BLOCK_SIZE, c) = BLOCK_SIZE \div 2

\* C5 as amended: a window of 4 consecutive assignments holds exactly 2 of
\* each label when it starts at a multiple of 4; a window that starts one
\* call before or after a multiple of 4 holds at least 1 of each label;
\* nothing is guaranteed for the other windows.
C5_AlignedWindowsBalanced ==
    Sequential =>
        LET assigned == Assigned(sessions)
        IN  \A o \in 0..(Len(assigned) - BLOCK_SIZE) : \A c \in Labels :
                /\ o % BLOCK_SIZE = 0 =>
                       CountIn(assigned, o + 1, o + BLOCK_SIZE, c) = BLOCK_SIZE \div 2
                /\ o % BLOCK_SIZE \in {1, BLOCK_SIZE - 1} =>
                       CountIn(assigned, o + 1, o + BLOCK_SIZE, c) >= 1

\* A window that straddles two blocks holds one label four times.
C5_Witness ==
    LET assigned == Assigned(sessions)
    IN  /\ Sequential
        /\ Len(assigned) = 2 * BLOCK_SIZE
        /\ \E c \in Labels : CountIn(assigned, 3, 2 + BLOCK_SIZE, c) = BLOCK_SIZE

Outcomes(existing, cache) ==
    {BlockRandomize(existing, cache, shuffled, coin) :
        shuffled \in ShuffledBlocks, coin \in CoinDraws}

\* The log without its forced records
WithoutForced(existing) == SelectSeq(existing, LAMBDA s : ~s.condition_forced)

\* C7: a session created with a valid CONDITION is recorded with
\* condition_forced = true, leaves the permutation cache unchanged, and is
\* excluded from the count and block position of later randomized
\* assignments: the randomizer returns after it what it returned before it,
\* which is what it returns for the log with the forced records removed.
C7_ForcedIsExcluded ==
    [][ForcedCreateStep =>
          LET after == Outcomes(sessions', currentBlock')
          IN  /\ Len(sessions') = Len(sessions) + 1
              /\ sessions'[Len(sessions')].condition_forced
              /\ currentBlock' = currentBlock
              /\ Assigned(sessions') = Assigned(sessions)
              /\ after = Outcomes(sessions, currentBlock)
              /\ after = Outcomes(WithoutForced(sessions'), currentBlock')
      ]_vars

\* A forced session was created inside a block and a randomized one after it.
C7_Witness ==
    \E i \in 1..Len(sessions) :
        /\ sessions[i].condition_forced
        /\ Len(Assigned(SubSeq(sessions, 1, i))) % BLOCK_SIZE # 0
        /\ i < Len(sessions)
        /\ ~sessions[Len(sessions)].condition_forced
        /\ Len(Assigned(sessions)) % BLOCK_SIZE = 0

\* "The next few calls": one block of sequential assignments after the race.
FewCalls == BLOCK_SIZE

IsFlow(e) == e.type \in {"start", "end", "task", "decision"}

IsStep(e) == e.type \in {"task", "decision"}

\* The positions in layout.elems of the step elements of a zone
Members(layout, zone) ==
    {i \in 1..Len(layout.elems) : IsStep(layout.elems[i]) /\ layout.elems[i].step \in zone.stepIds}

\* The vertical span of a zone: from the highest top to the lowest bottom
ZoneSpan(layout, zone) ==
    LET members == Members(layout, zone)
        top == CHOOSE t \in {topY(layout.elems[i]) : i \in members} :
                   \A i \in members : t <= topY(layout.elems[i])
        bottom == CHOOSE b \in {bottomY(layout.elems[i]) : i \in members} :
                   \A i \in members : b >= bottomY(layout.elems[i])
    IN  bottom - top

\* A zone with a positive minimum and exactly one member element that is
\* lower than the minimum
ShortSingle(layout, zone, reqMin) ==
    /\ reqMin > 0
    /\ Cardinality(Members(layout, zone)) = 1
    /\ ZoneSpan(layout, zone) < reqMin

ZoneCount == Len(currentOptions.estimationZones)

\* C2 as stated: a second reconciliation with the same zones and minimum
\* heights leaves the reconciled layout unchanged.
C2_ReconcileIdempotent ==
    Len(passLayouts) >= 3 => passLayouts[3] = passLayouts[2]

\* C2 as amended: the second reconciliation leaves every element and the
\* total height unchanged when no zone with a single member element is
\* lower than its minimum; such a zone never reaches its minimum, and the
\* second pass then shifts the elements below it and grows the total
\* height again.
C2_IdempotentUnlessShortSingle ==
    Len(passLayouts) >= 3 =>
        IF \E z \in 1..ZoneCount :
               ShortSingle(passLayouts[1], currentOptions.estimationZones[z],
                           currentOptions.zoneMinHeights[z])
        THEN passLayouts[3].h > passLayouts[2].h
        ELSE passLayouts[3] = passLayouts[2]

\* Two zones were short in the first pass and the second pass changed nothing.
C2_Witness ==
    /\ Len(passLayouts) >= 3
    /\ passLayouts[3] = passLayouts[2]
    /\ ZoneCount = 2
    /\ LET steps == AdjustSteps(passLayouts[1], currentOptions.estimationZones,
                                currentOptions.zoneMinHeights, 1)
       IN  steps[1] # steps[2] /\ steps[2] # steps[3]

\* C3 as stated: after reconciliation every zone with a member element and
\* a positive minimum spans at least its minimum.
C3_EveryZoneReachesMinimum ==
    Len(passLayouts) >= 2 =>
        \A z \in 1..ZoneCount :
            LET zone == currentOptions.estimationZones[z]
                reqMin == currentOptions.zoneMinHeights[z]
            IN  (reqMin > 0 /\ Members(passLayouts[2], zone) # {}) =>
                    ZoneSpan(passLayouts[2], zone) >= reqMin

\* The top of the first flow element after position i of layout.elems
NextFlowTop(layout, i) ==
    LET later == {j \in (i + 1)..Len(layout.elems) : IsFlow(layout.elems[j])}
        next == CHOOSE j \in later : \A k \in later : j <= k
    IN  topY(layout.elems[next])

\* C3 as amended: after reconciliation every zone with at least two member
\* elements and a positive minimum spans at least its minimum; a zone with
\* a single member element keeps the height of that element, and the room
\* it lacks is left below it: the next flow element starts at least the
\* minimum below the top of the zone.
C3_ZoneReachesMinimumOrRoomBelow ==
    Len(passLayouts) >= 2 =>
        \A z \in 1..ZoneCount :
            LET zone == currentOptions.estimationZones[z]
                reqMin == currentOptions.zoneMinHeights[z]
                before == passLayouts[1]
                after == passLayouts[2]
                members == Members(after, zone)
            IN  (reqMin > 0 /\ members # {}) =>
                    IF Cardinality(members) >= 2
                    THEN ZoneSpan(after, zone) >= reqMin
                    ELSE /\ ZoneSpan(after, zone) = ZoneSpan(before, zone)
                         /\ \A i \in members :
                                NextFlowTop(after, i) - topY(after.elems[i]) >= reqMin

\* A zone of three or more members was short and now spans its minimum
\* exactly, and a zone of one member was short.
C3_Witness ==
    /\ Len(passLayouts) >= 2
    /\ \E z \in 1..ZoneCount :
           LET zone == currentOptions.estimationZones[z]
           IN  /\ Cardinality(Members(passLayouts[1], zone)) >= 3
               /\ ZoneSpan(passLayouts[1], zone) < currentOptions.zoneMinHeights[z]
               /\ ZoneSpan(passLayouts[2], zone) = currentOptions.zoneMinHeights[z]
    /\ \E z \in 1..ZoneCount :
           ShortSingle(passLayouts[1], currentOptions.estimationZones[z],
                       currentOptions.zoneMinHeights[z])

\* What a zone lacks to its minimum in a layout (0 when it lacks nothing,
\* has no member or no positive minimum)
Deficit(layout, zone, reqMin) ==
    IF reqMin > 0 /\ Members(layout, zone) # {} /\ ZoneSpan(layout, zone) < reqMin
    THEN reqMin - ZoneSpan(layout, zone)
    ELSE 0

RECURSIVE SumTo(_, _)
SumTo(f, n) == IF n = 0 THEN 0 ELSE f[n] + SumTo(f, n - 1)

\* The deficits of the zones of a pass, each on the layout as shifted by
\* the zones before it
PassDeficits(layout) ==
    LET steps == AdjustSteps(layout, currentOptions.estimationZones,
                             currentOptions.zoneMinHeights, 1)
    IN  [z \in 1..ZoneCount |->
            Deficit(steps[z], currentOptions.estimationZones[z], currentOptions.zoneMinHeights[z])]

\* C4: a reconciliation never decreases the total layout height, and the
\* height after it is the height before plus the sum, over the zones in
\* order, of the positive deficits required minimum - current span.
C4_HeightGrowsByDeficits ==
    \A k \in 1..(Len(passLayouts) - 1) :
        /\ passLayouts[k + 1].h >= passLayouts[k].h
        /\ passLayouts[k + 1].h = passLayouts[k].h + SumTo(PassDeficits(passLayouts[k]), ZoneCount)

\* Two zones had a positive deficit in one pass.
C4_Witness ==
    /\ Len(passLayouts) >= 2
    /\ ZoneCount = 2
    /\ \A z \in 1..ZoneCount : PassDeficits(passLayouts[1])[z] > 0
    /\ passLayouts[2].h > passLayouts[1].h

\* ------------------------------------------------------------------------
\* Properties of the layout
\* ------------------------------------------------------------------------
\* C9: a click that follows a click on the same step (expand then
\* collapse, or collapse then expand) brings back, coordinate for
\* coordinate and with the same total height, the layout shown before the
\* first of the two clicks; and whatever the clicks so far, the layout
\* shown is the one computed from the description, the steps expanded now
\* and the options of the last render call.
C9_ToggleTwiceRestoresLayout ==
    [][/\ (beforeClick'.again /\ beforeClick' # beforeClick)
           => /\ lastLayout'.elems = beforeClick.layout.elems
              /\ lastLayout'.h = beforeClick.layout.h
              /\ lastLayout' = beforeClick.layout
       /\ lastLayout' # NoLayout
           => lastLayout' = InternalRender(processMap', expandedSteps', currentOptions')]_vars

\* A step was expanded and collapsed again, on a map with reconciled zones.
C9_Witness ==
    /\ beforeClick.again
    /\ beforeClick.step \notin expandedSteps
    /\ currentOptions.hasMinHeights
    /\ lastLayout # beforeClick.layout

FlowElems(layout) == SelectSeq(layout.elems, IsFlow)

\* C10: in a layout as computeLayout returns it, the flow elements (start,
\* steps in phase and step order, end) have strictly increasing tops.
C10_FlowTopsIncrease ==
    (lastLayout # NoLayout /\ ~currentOptions.hasMinHeights) =>
        LET flow == FlowElems(lastLayout)
        IN  \A i, j \in 1..Len(flow) : i < j => topY(flow[i]) < topY(flow[j])

\* A layout with a decision, an expanded task and a phase without steps.
C10_Witness ==
    /\ lastLayout # NoLayout
    /\ ~currentOptions.hasMinHeights
    /\ expandedSteps # {}
    /\ \E i \in 1..Len(lastLayout.elems) : lastLayout.elems[i].type = "decision"
    /\ \E p \in 1..Len(processMap) : processMap[p].steps = <<>>

\* ------------------------------------------------------------------------
\* Properties of the fallback of the block randomizer
\* ------------------------------------------------------------------------
\* The labels of the non-forced records of a log, in order
NonForcedLabels(existing) ==
    [i \in 1..Len(WithoutForced(existing)) |-> WithoutForced(existing)[i].condition]

\* The fallback case: mid-block, and the cache is missing, is not of length
\* BLOCK_SIZE, or does not start with the assignments of the block so far
CacheUnusable(labels, cache) ==
    /\ Len(labels) % BLOCK_SIZE # 0
    /\ \/ cache = NullBlock
       \/ Len(cache) # BLOCK_SIZE
       \/ SubSeq(cache, 1, Len(labels) % BLOCK_SIZE)
              # SubSeq(labels, Len(labels) - (Len(labels) % BLOCK_SIZE) + 1, Len(labels))

\* C25: blockRandomize always returns one of the two labels; mid-block,
\* when the cache is missing, is not of length 4 or its first pos elements
\* differ from the most recent pos non-forced assignments, it returns the
\* label with strictly fewer occurrences among all non-forced assignments,
\* and either label only when the two counts are tied.
C25_FallbackPicksSmallerGroup ==
    (args.op = "blockRandomize" /\ results # <<>>) =>
        /\ results[1] \in Labels
        /\ CacheUnusable(NonForcedLabels(sessions), currentBlock) =>
               /\ CountOf(NonForcedLabels(sessions), "detailed")
                      < CountOf(NonForcedLabels(sessions), "simple")
                      => results[1] = "detailed"
               /\ CountOf(NonForcedLabels(sessions), "simple")
                      < CountOf(NonForcedLabels(sessions), "detailed")
                      => results[1] = "simple"

\* Mid-block, a cache of length 4 disagreed with the log, the block so far
\* leaned one way and the whole log the other, after a forced session.
C25_Witness ==
    /\ args.op = "blockRandomize"
    /\ results = <<"simple">>
    /\ Len(currentBlock) = BLOCK_SIZE
    /\ CacheUnusable(NonForcedLabels(sessions), currentBlock)
    /\ sessions[1].condition_forced
    /\ Len(NonForcedLabels(sessions)) = BLOCK_SIZE + 1
    /\ NonForcedLabels(sessions)[BLOCK_SIZE + 1] = "simple"

\* ------------------------------------------------------------------------
\* Properties of the log of a server that is restarted
\* ------------------------------------------------------------------------
\* C26: in a server that handles its session-create requests one at a time
\* from an empty log, after any interleaving of randomized assignments,
\* forced assignments and restarts, the counts of the two labels among the
\* non-forced records differ by at most 2, and they are equal whenever the
\* number of non-forced records is a multiple of 4.
C26_CountsWithinTwo ==
    races = <<>> =>
        /\ Imbalance(NonForcedLabels(sessions), Len(NonForcedLabels(sessions))) <= 2
        /\ Len(NonForcedLabels(sessions)) % 4 = 0
               => CountOf(NonForcedLabels(sessions), "detailed")
                      = CountOf(NonForcedLabels(sessions), "simple")

\* A forced session and a restart fell inside the first block, the block
\* went two to nothing on the way and three more sessions followed it.
C26_Witness ==
    /\ races = <<>>
    /\ restarts.midBlock
    /\ \E i \in 1..Len(sessions) : i <= BLOCK_SIZE /\ sessions[i].condition_forced
    /\ Len(NonForcedLabels(sessions)) = 2 * BLOCK_SIZE - 1
    /\ Imbalance(NonForcedLabels(sessions), 2) = 2

\* ------------------------------------------------------------------------
\* Properties of the assignment as sessions age
\* ------------------------------------------------------------------------
IsCompleted(s) == s.completed

\* The log without its abandoned sessions: those started more than 30
\* minutes ago and not completed
WithoutAbandoned(existing, old) ==
    SelectSeq(SubSeq(existing, 1, old), IsCompleted)
        \o SubSeq(existing, old + 1, Len(existing))

\* C17: when the server assigns a condition, the sessions older than 30
\* minutes that are not completed are ignored: the condition assigned is
\* one the randomizer returns for the log without them, so that they do
\* not count toward the balance of the two conditions.
C17_AbandonedSessionsIgnored ==
    [][(/\ Len(sessions') = Len(sessions) + 1
        /\ ~sessions'[Len(sessions')].condition_forced)
           => \E r \in Outcomes(WithoutAbandoned(sessions, stale), currentBlock) :
                  response'.condition = r.label
      ]_vars

IsBand(e) == e.type = "band"

DrawnBands(layout) == SelectSeq(layout.elems, IsBand)

ConnectorsShort(layout) ==
    [ i \in 1..(Len(FlowElems(layout)) - 2) |->
        [ x1 |-> layout.cx, y1 |-> bottomY(FlowElems(layout)[i]),
          x2 |-> layout.cx, y2 |-> topY(FlowElems(layout)[i + 1]) ] ]
Connectors(layout) ==
    [ i \in 1..(Len(FlowElems(layout)) - 1) |->
        [ x1 |-> layout.cx, y1 |-> bottomY(FlowElems(layout)[i]),
          x2 |-> layout.cx, y2 |-> topY(FlowElems(layout)[i + 1]) ] ]

EngineReturned == args.op = "computeLayout" /\ results # <<>>

OfType(layout, types) ==
    {i \in 1..Len(layout.elems) : layout.elems[i].type \in types}

\* C16: for a description of P phases and S steps in all, the layout holds
\* exactly P bands, S step elements (tasks and decisions), one start and
\* one end marker, and the renderer draws exactly S + 1 connector lines,
\* each from the bottom of a flow element to the top of the next.
C16_ElementAndConnectorCounts ==
    EngineReturned =>
        /\ Cardinality(OfType(results[1], {"band"})) = Len(processMap)
        /\ Len(DrawnBands(results[1])) = Len(processMap)
        /\ Cardinality(OfType(results[1], {"task", "decision"})) = Len(AllSteps(processMap))
        /\ Cardinality(OfType(results[1], {"start"})) = 1
        /\ Cardinality(OfType(results[1], {"end"})) = 1
        /\ Len(Connectors(results[1])) = Len(AllSteps(processMap)) + 1
        /\ \A i \in 1..Len(Connectors(results[1])) :
               Connectors(results[1])[i].y1 <= Connectors(results[1])[i].y2

\* The layout of two phases of one step each: 2 bands, 2 tasks, 1 start,
\* 1 end, 3 connectors.
C16_Witness ==
    /\ EngineReturned
    /\ processMap = OneStepPhases
    /\ Cardinality(OfType(results[1], {"band"})) = 2
    /\ Cardinality(OfType(results[1], {"task"})) = 2
    /\ Len(Connectors(results[1])) = 3

\* C19: an identifier of the ExpansionState that matches no step of the
\* description has no effect: the layout is the layout computed without
\* it.
C19_UnknownExpansionIgnored ==
    EngineReturned =>
        /\ results[1] = computeLayout(processMap, expandedSteps \ {UnknownStepId})
        /\ \A i \in 1..Len(results[1].elems) : results[1].elems[i].step # UnknownStepId

\* The ExpansionState named an unknown step, alone or with a task that has
\* hidden actions.
C19_Witness ==
    /\ EngineReturned
    /\ UnknownStepId \in expandedSteps
    /\ \E i \in 1..Len(results[1].elems) : ~results[1].elems[i].isExpanded /\ results[1].elems[i].type = "task"
    /\ \E i \in 1..Len(results[1].elems) : results[1].elems[i].isExpanded

BandsOf(layout, phase) ==
    {i \in OfType(layout, {"band"}) : layout.elems[i].phase = phase}

\* C20: a phase without steps still gets exactly one band, whose height is
\* the header height plus the fixed top and bottom padding; the phases
\* after it get their bands and steps, the end marker closes the layout
\* and the total height is measured from it.
C20_EmptyPhaseBand ==
    EngineReturned =>
        /\ \A p \in 1..Len(processMap) :
               /\ Cardinality(BandsOf(results[1], p)) = 1
               /\ processMap[p].steps = <<>> =>
                      \A i \in BandsOf(results[1], p) :
                          results[1].elems[i].h = Px(phaseLabelH + phasePadY + phasePadY)
        /\ StepIds(processMap) =
               {results[1].elems[i].step : i \in OfType(results[1], {"task", "decision"})}
        /\ results[1].elems[Len(results[1].elems)].type = "end"
        /\ results[1].h = bottomY(results[1].elems[Len(results[1].elems)]) + Px(canvasPad)

\* The description has a phase without steps between two phases with steps.
C20_Witness ==
    /\ EngineReturned
    /\ \E p \in 2..(Len(processMap) - 1) :
           /\ processMap[p].steps = <<>>
           /\ processMap[p - 1].steps # <<>>
           /\ processMap[p + 1].steps # <<>>
           /\ \E i \in BandsOf(results[1], p) : results[1].elems[i].h = Px(62)

\* ------------------------------------------------------------------------
\* Properties of the reconciliation of zones without elements
\* ------------------------------------------------------------------------
\* The indexes of the zones that match at least one step element
RECURSIVE MatchedZones(_, _, _)
MatchedZones(layout, zones, idx) ==
    IF idx > Len(zones) THEN <<>>
    ELSE (IF Members(layout, zones[idx]) # {} THEN <<idx>> ELSE <<>>)
             \o MatchedZones(layout, zones, idx + 1)

Picked(seq, idxs) == [i \in 1..Len(idxs) |-> seq[idxs[i]]]

ZoneSkipped(before, after, zones, mins) ==
    /\ \A z \in 1..Len(zones) :
           Members(before, zones[z]) = {} =>
               /\ AdjustSteps(before, zones, mins, 1)[z + 1].elems
                      = AdjustSteps(before, zones, mins, 1)[z].elems
               /\ AdjustSteps(before, zones, mins, 1)[z + 1].h
                      = AdjustSteps(before, zones, mins, 1)[z].h
    /\ after = adjustLayoutForZoneMinHeights(before,
                   Picked(zones, MatchedZones(before, zones, 1)),
                   Picked(mins, MatchedZones(before, zones, 1)))

\* C18: a zone whose step ids match no task or decision element is
\* skipped: the reconciliation raises no error, the zone changes no element
\* and not the total height, and the other zones are processed as if the
\* zone were not listed.
C18_UnmatchedZoneSkipped ==
    Len(passLayouts) >= 2 =>
        ZoneSkipped(passLayouts[Len(passLayouts) - 1], passLayouts[Len(passLayouts)],
                    currentOptions.estimationZones, currentOptions.zoneMinHeights)

\* A zone without elements and with a positive minimum came before a zone
\* that was grown.
C18_Witness ==
    /\ Len(passLayouts) >= 2
    /\ ZoneCount = 2
    /\ Members(passLayouts[1], currentOptions.estimationZones[1]) = {}
    /\ currentOptions.zoneMinHeights[1] > 0
    /\ Members(passLayouts[1], currentOptions.estimationZones[2]) # {}
    /\ passLayouts[2].h > passLayouts[1].h

\* ------------------------------------------------------------------------
\* Properties of wrap
\* ------------------------------------------------------------------------
\* lines.join(' ')
RECURSIVE Join(_)
Join(lines) ==
    IF lines = <<>> THEN <<>>
    ELSE IF Len(lines) = 1 THEN Head(lines)
    ELSE Head(lines) \o <<" ">> \o Join(Tail(lines))

NonEmpty(piece) == piece # <<>>

\* The words of a string: its maximal pieces without a space
Words(str) == SelectSeq(Split(str), NonEmpty)

\* A string with its whitespace normalized to single spaces
Normalized(str) == Join(Words(str))

WrapReturned == args.op = "wrap" /\ results # <<>>

\* C12 as stated: for every string and every positive budget, the lines
\* wrap returns, joined with single spaces, are the input with its
\* whitespace normalized to single spaces.
C12_JoinIsNormalizedInput ==
    WrapReturned => Join(results[1]) = Normalized(args.str)

\* C12: for every string and every positive budget, the words of the lines
\* wrap returns are the words of the input, all of them, once each and in
\* the same order; and when the words of the input are separated by single
\* spaces, with no space at either end, the lines joined with single
\* spaces are the input itself.  Whitespace is not normalized.
C12_WordsKeptInOrder ==
    WrapReturned =>
        /\ Words(Join(results[1])) = Words(args.str)
        /\ Normalized(args.str) = args.str => Join(results[1]) = args.str

\* A text of three different words wrapped into several lines.
C12_Witness ==
    /\ WrapReturned
    /\ Len(results[1]) >= 2
    /\ Len(Words(args.str)) >= 3
    /\ \E i, j \in 1..Len(Words(args.str)) : Words(args.str)[i] # Words(args.str)[j]
    /\ Normalized(args.str) = args.str

\* C13: every line wrap returns that holds more than one word has an
\* estimated width of at most the budget; a line is wider than the budget
\* only when it is one word of the input, longer than the budget, kept
\* whole on a line of its own.
C13_LinesFitUnlessSingleWord ==
    WrapReturned =>
        \A i \in 1..Len(results[1]) :
            \/ approxW(results[1][i], args.fontSize) <= args.maxPx100
            \/ /\ Spaces(results[1][i]) = {}
               /\ \E k \in 1..Len(Split(args.str)) : Split(args.str)[k] = results[1][i]

\* One call returned a line of two words within the budget and a line of
\* one word wider than the budget.
C13_Witness ==
    /\ WrapReturned
    /\ \E i \in 1..Len(results[1]) :
           /\ Len(Words(results[1][i])) >= 2
           /\ approxW(results[1][i], args.fontSize) <= args.maxPx100
    /\ \E i \in 1..Len(results[1]) :
           approxW(results[1][i], args.fontSize) > args.maxPx100

\* ------------------------------------------------------------------------
\* Properties of stepDims
\* ------------------------------------------------------------------------
BothSized == args.op = "stepDims" /\ Len(results) = 2

IsPrefix(short, long) ==
    Len(short) <= Len(long) /\ SubSeq(long, 1, Len(short)) = short

\* C14 as stated: of two steps that differ only in name, the step with the
\* longer name never gets a smaller box height.
C14_LongerNameNotSmaller ==
    (BothSized /\ Len(args.steps[1].name) < Len(args.steps[2].name))
        => results[1].h <= results[2].h

\* C14: of two steps that differ only in name, where the longer name is the
\* shorter one with text appended and holds at least one word, the step
\* with the longer name never gets fewer name lines nor a smaller box
\* height.
C14_ExtendedNameNotSmaller ==
    (/\ BothSized
     /\ IsPrefix(args.steps[1].name, args.steps[2].name)
     /\ Words(args.steps[2].name) # <<>>)
        => /\ Len(results[1].lines) <= Len(results[2].lines)
           /\ results[1].h <= results[2].h

\* A name of one line was extended into a name of three lines.
C14_Witness ==
    /\ BothSized
    /\ IsPrefix(args.steps[1].name, args.steps[2].name)
    /\ Len(results[1].lines) = 1
    /\ Len(results[2].lines) = 3
    /\ results[1].h < results[2].h

\* C15: the height stepDims returns is the larger of the minimum step
\* height and the sum of the top padding, the line count times the line
\* height, the name-to-badge gap, the badge-row height and the bottom
\* padding; it is never below the minimum step height, also when wrap
\* returns no line.
NameRowsH(dims) ==
    stepPadTop + Len(dims.lines) * stepNameLineH + stepNameBadgeGap + stepBadgeRowH
        + stepPadBottom

C15_HeightIsMaxOfMinimumAndSum ==
    \A i \in 1..Len(results) :
        args.op = "stepDims" =>
            /\ results[i].h >= stepMinH
            /\ results[i].h >= NameRowsH(results[i])
            /\ results[i].h \in {stepMinH, NameRowsH(results[i])}

\* stepDims sized a step whose name wraps to no line, and one whose name
\* wraps to two lines.
C15_Witness ==
    /\ BothSized
    /\ results[1].lines = <<>>
    /\ results[1].h = stepMinH
    /\ Len(results[2].lines) = 2
    /\ results[2].h > stepMinH

\* ------------------------------------------------------------------------
\* Properties of the reconciliation of one zone
\* ------------------------------------------------------------------------
\* The layouts of the last pass: before its first zone and after each zone
LastPassSteps ==
    AdjustSteps(passLayouts[Len(passLayouts) - 1], currentOptions.estimationZones,
                currentOptions.zoneMinHeights, 1)

\* The lower edge of an element: of a band, its top plus its height
ElemBottom(e) == IF e.type = "band" THEN e.y + e.h ELSE bottomY(e)

\* The number of members of a zone that lie above member i
Rank(layout, members, i) ==
    Cardinality({j \in members : topY(layout.elems[j]) < topY(layout.elems[i])})

ZoneTop(layout, zone) ==
    CHOOSE t \in {topY(layout.elems[i]) : i \in Members(layout, zone)} :
        \A i \in Members(layout, zone) : t <= topY(layout.elems[i])

ZoneBottom(layout, zone) ==
    CHOOSE b \in {bottomY(layout.elems[i]) : i \in Members(layout, zone)} :
        \A i \in Members(layout, zone) : b >= bottomY(layout.elems[i])

\* The zone, short by delta > 0 and with n > 1 members, was spread
SpreadInZone(before, after, zone, delta, members, n) ==
    /\ \A i \in members :
           /\ (after.elems[i].y - before.elems[i].y) * (n - 1)
                  = Rank(before, members, i) * delta
           /\ Rank(before, members, i) = 0 => after.elems[i] = before.elems[i]
           /\ Rank(before, members, i) = n - 1
                  => after.elems[i].y = before.elems[i].y + delta
           /\ \A j \in members :
                  Rank(before, members, j) = Rank(before, members, i) + 1 =>
                      (topY(after.elems[j]) - bottomY(after.elems[i])) * (n - 1)
                          = (topY(before.elems[j]) - bottomY(before.elems[i])) * (n - 1) + delta
    /\ \A i \in 1..Len(before.elems) :
           /\ ElemBottom(before.elems[i]) <= ZoneTop(before, zone)
                  => after.elems[i] = before.elems[i]
           /\ topY(before.elems[i]) > ZoneBottom(before, zone)
                  => after.elems[i] = [before.elems[i] EXCEPT !.y = @ + delta]

\* C21: when a zone with N > 1 member elements is short by delta, the k-th
\* member in vertical order (k = 0 .. N-1) is shifted down by
\* k * delta / (N-1): each of the N-1 gaps between consecutive members
\* grows by delta / (N-1), the first member does not move, the last moves
\* by delta, every element above the zone is unchanged and every element
\* below the zone moves down by delta.
C21_DeltaSpreadInsideZone ==
    Len(passLayouts) >= 2 =>
        /\ LastPassSteps[ZoneCount + 1] = passLayouts[Len(passLayouts)]
        /\ \A z \in 1..ZoneCount :
               LET zone == currentOptions.estimationZones[z]
                   before == LastPassSteps[z]
                   delta == Deficit(before, zone, currentOptions.zoneMinHeights[z])
                   members == Members(before, zone)
               IN  (Cardinality(members) > 1 /\ delta > 0) =>
                       SpreadInZone(before, LastPassSteps[z + 1], zone, delta,
                                    members, Cardinality(members))

\* A zone of at least three members, with a step that is not a member
\* between two of them or not, was short and was spread.
C21_Witness ==
    /\ Len(passLayouts) >= 2
    /\ \E z \in 1..ZoneCount :
           /\ Cardinality(Members(LastPassSteps[z], currentOptions.estimationZones[z])) >= 3
           /\ Deficit(LastPassSteps[z], currentOptions.estimationZones[z],
                      currentOptions.zoneMinHeights[z]) > 0
           /\ LastPassSteps[z + 1].h > LastPassSteps[z].h

\* ------------------------------------------------------------------------
\* Properties of reconciled layouts
\* ------------------------------------------------------------------------
FlowPositions(layout) == {i \in 1..Len(layout.elems) : IsFlow(layout.elems[i])}

\* The vertical gap between element i and a later element j
GapBetween(layout, i, j) == topY(layout.elems[j]) - bottomY(layout.elems[i])

\* C22: a reconciliation never disturbs the relative order: for any two
\* flow elements A before B, after the reconciliation of any list of zones
\* (in any order, overlapping or not) the bottom of A is still above the
\* top of B, and the vertical gap between them is at least what it was
\* before.
C22_OrderAndGapsKept ==
    \A k \in 1..(Len(passLayouts) - 1) :
        \A i, j \in FlowPositions(passLayouts[k]) :
            i < j =>
                /\ GapBetween(passLayouts[k], i, j) > 0
                /\ GapBetween(passLayouts[k + 1], i, j) > 0
                /\ GapBetween(passLayouts[k + 1], i, j) >= GapBetween(passLayouts[k], i, j)

\* Two overlapping zones were short, the second overlapping the first and
\* listed in the other order of the flow, and a gap grew.
C22_Witness ==
    /\ Len(passLayouts) >= 2
    /\ ZoneCount = 2
    /\ \A z \in 1..ZoneCount : PassDeficits(passLayouts[1])[z] > 0
    /\ currentOptions.estimationZones[1].stepIds \cap currentOptions.estimationZones[2].stepIds # {}
    /\ currentOptions.estimationZones[1] # currentOptions.estimationZones[2]
    /\ \E i, j \in FlowPositions(passLayouts[1]) :
           i < j /\ GapBetween(passLayouts[2], i, j) > GapBetween(passLayouts[1], i, j)

\* The cumulative shifts of the boundaries of a zone that lie strictly above
\* a vertical position, and 0: the bottoms of the members but the last
\* carry (rank + 1) * delta / (n - 1), the bottom of the zone carries delta
ShiftsAbove(layout, zone, delta, members, pos) ==
    {0}
    \cup { ((Rank(layout, members, i) + 1) * delta) \div (Cardinality(members) - 1) :
             i \in {m \in members : /\ Rank(layout, members, m) < Cardinality(members) - 1
                                     /\ bottomY(layout.elems[m]) < pos} }
    \cup (IF ZoneBottom(layout, zone) < pos THEN {delta} ELSE {})

Largest(set) == CHOOSE m \in set : \A x \in set : x <= m

BandPositions(layout) == {i \in 1..Len(layout.elems) : layout.elems[i].type = "band"}

BandShifted(before, after, zone, delta, members, i) ==
    /\ after.elems[i].y
           = before.elems[i].y
               + Largest(ShiftsAbove(before, zone, delta, members, before.elems[i].y))
    /\ after.elems[i].y + after.elems[i].h
           = before.elems[i].y + before.elems[i].h
               + Largest(ShiftsAbove(before, zone, delta, members,
                                     before.elems[i].y + before.elems[i].h))
    /\ (/\ before.elems[i].y <= ZoneTop(before, zone)
        /\ before.elems[i].y + before.elems[i].h >= ZoneBottom(before, zone))
           => /\ after.elems[i].y = before.elems[i].y
              /\ after.elems[i].h = before.elems[i].h + delta
    /\ before.elems[i].y >= ZoneBottom(before, zone)
           => /\ after.elems[i].y = before.elems[i].y + delta
              /\ after.elems[i].h = before.elems[i].h
    /\ before.elems[i].y + before.elems[i].h <= ZoneTop(before, zone)
           => after.elems[i] = before.elems[i]
    /\ after.elems[i].h >= before.elems[i].h

\* C23: during the reconciliation of a zone short by delta, the top edge
\* and the bottom edge of each band are shifted independently, each by the
\* largest cumulative shift among the boundaries strictly above it: a band
\* that contains the whole zone keeps its top and grows by delta, a band
\* entirely below the zone moves down by delta with its height unchanged,
\* a band entirely above the zone is unchanged, and the height of no band
\* decreases.
C23_BandEdgesShiftIndependently ==
    Len(passLayouts) >= 2 =>
        \A z \in 1..ZoneCount :
            LET zone == currentOptions.estimationZones[z]
                before == LastPassSteps[z]
                delta == Deficit(before, zone, currentOptions.zoneMinHeights[z])
            IN  delta > 0 =>
                    \A i \in BandPositions(before) :
                        BandShifted(before, LastPassSteps[z + 1], zone, delta,
                                    Members(before, zone), i)

\* A short zone reached over two phases: the band of the lower phase moved
\* down and grew, and a zone of a single member was short as well.
C23_Witness ==
    /\ Len(passLayouts) >= 2
    /\ ZoneCount = 2
    /\ Deficit(LastPassSteps[1], currentOptions.estimationZones[1],
               currentOptions.zoneMinHeights[1]) > 0
    /\ \E i \in BandPositions(LastPassSteps[1]) :
           /\ LastPassSteps[2].elems[i].y > LastPassSteps[1].elems[i].y
           /\ LastPassSteps[2].elems[i].h > LastPassSteps[1].elems[i].h
    /\ Cardinality(Members(LastPassSteps[2], currentOptions.estimationZones[2])) = 1
    /\ Deficit(LastPassSteps[2], currentOptions.estimationZones[2],
               currentOptions.zoneMinHeights[2]) > 0

\* ------------------------------------------------------------------------
\* Properties of the expansion of a step
\* ------------------------------------------------------------------------
StepOf(phases, sid) ==
    AllSteps(phases)[CHOOSE i \in 1..Len(AllSteps(phases)) : AllSteps(phases)[i].id = sid]

PositionOf(layout, sid) ==
    CHOOSE i \in 1..Len(layout.elems) : IsStep(layout.elems[i]) /\ layout.elems[i].step = sid

\* The layout after is the layout before with the task at position p
\* expanded by H
ExpandedBy(before, after, p, H) ==
    /\ Len(after.elems) = Len(before.elems)
    /\ \A i \in 1..Len(before.elems) :
           IF before.elems[i].type = "band"
           THEN IF before.elems[i].phase < before.elems[p].phase
                THEN after.elems[i] = before.elems[i]
                ELSE IF before.elems[i].phase = before.elems[p].phase
                THEN after.elems[i] = [before.elems[i] EXCEPT !.h = @ + H]
                ELSE after.elems[i] = [before.elems[i] EXCEPT !.y = @ + H]
           ELSE IF i < p THEN after.elems[i] = before.elems[i]
           ELSE IF i = p
                THEN after.elems[i] = [before.elems[i] EXCEPT !.isExpanded = TRUE, !.expH = H]
           ELSE after.elems[i] = [before.elems[i] EXCEPT !.y = @ + H]
    /\ after.h = before.h + H
    /\ after.w = before.w
    /\ after.cx = before.cx

Expanded == args.op = "expand" /\ Len(results) = 2

\* C24: adding a task s to the ExpansionState changes the layout only as
\* follows: every flow element after s and every band after the phase of
\* s moves down by expansionH(s), the band of the phase of s and the total
\* height grow by expansionH(s), and every element before s keeps its
\* coordinates; expansionH(s) is 0 when s has neither hidden actions nor
\* an error loop, and then nothing moves.
C24_ExpansionFrame ==
    Expanded =>
        /\ ExpandedBy(results[1], results[2], PositionOf(results[1], args.step),
                      Px(expansionH(StepOf(processMap, args.step))))
        /\ expansionH(StepOf(processMap, args.step)) >= 0
        /\ ~hasExpandable(StepOf(processMap, args.step))
               => /\ expansionH(StepOf(processMap, args.step)) = 0
                  /\ \A i \in 1..Len(results[1].elems) :
                         /\ results[2].elems[i].y = results[1].elems[i].y
                         /\ results[2].elems[i].h = results[1].elems[i].h
                  /\ results[2].h = results[1].h

\* A task with something to expand was expanded below another step, in a
\* phase that another phase follows.
C24_Witness ==
    /\ Expanded
    /\ expansionH(StepOf(processMap, args.step)) > 0
    /\ PositionOf(results[1], args.step) > 2
    /\ \E i \in 1..Len(results[1].elems) :
           /\ results[1].elems[i].type = "band"
           /\ results[1].elems[i].phase > results[1].elems[PositionOf(results[1], args.step)].phase
           /\ results[2].elems[i].y > results[1].elems[i].y
    /\ results[2].h > results[1].h

\* ------------------------------------------------------------------------
\* Properties of the bands of a layout
\* ------------------------------------------------------------------------
InsideBand(e, band) ==
    /\ band.y + Px(phaseLabelH) <= topY(e)
    /\ bottomY(e) <= band.y + band.h

StepsInsideBands(layout) ==
    \A i \in OfType(layout, {"task", "decision"}) :
        /\ BandsOf(layout, layout.elems[i].phase) # {}
        /\ \A b \in BandsOf(layout, layout.elems[i].phase) :
               InsideBand(layout.elems[i], layout.elems[b])

\* C27: every task and decision lies inside the band of its own phase, below
\* the header of the band: band top + header height <= element top, and
\* element bottom (with its expansion panel) <= band top + band height.  It
\* holds in the layout computeLayout returns for any set of expanded steps
\* and after every reconciliation of the zones.
C27_StepsInsideOwnBand ==
    \A k \in 1..Len(passLayouts) : StepsInsideBands(passLayouts[k])

\* A reconciliation has moved an expanded task down and has made the band of
\* its phase taller.
C27_Witness ==
    /\ Len(passLayouts) >= 2
    /\ \E i \in OfType(passLayouts[1], {"task"}) :
           /\ passLayouts[1].elems[i].expH > 0
           /\ \E b \in BandsOf(passLayouts[1], passLayouts[1].elems[i].phase) :
                  /\ passLayouts[2].elems[b].h > passLayouts[1].elems[b].h
                  /\ passLayouts[2].elems[i].y > passLayouts[1].elems[i].y

\* ------------------------------------------------------------------------
\* Properties of the height of a layout
\* ------------------------------------------------------------------------
EndMarker(layout) == layout.elems[CHOOSE i \in OfType(layout, {"end"}) : TRUE]

\* C28: the height of a layout is the bottom edge of its end marker plus the
\* canvas padding.  It holds for the layout computeLayout returns and every
\* reconciliation of the zones keeps it: the end marker moves down by the
\* amount that is added to the height.
C28_HeightFollowsEndMarker ==
    /\ \A k \in 1..Len(passLayouts) :
           /\ Cardinality(OfType(passLayouts[k], {"end"})) = 1
           /\ passLayouts[k].h = bottomY(EndMarker(passLayouts[k])) + Px(canvasPad)
    /\ \A k \in 2..Len(passLayouts) :
           passLayouts[k].h - passLayouts[k - 1].h
               = EndMarker(passLayouts[k]).y - EndMarker(passLayouts[k - 1]).y

\* Two reconciliations in a row have each made the layout taller.
C28_Witness ==
    /\ Len(passLayouts) >= 3
    /\ passLayouts[2].h > passLayouts[1].h
    /\ passLayouts[3].h > passLayouts[2].h

\* ------------------------------------------------------------------------
\* Properties of the records of a participant
\* ------------------------------------------------------------------------
RecordsOfPid(log, pid) == {i \in 1..Len(log) : log[i].prolific_pid = pid}

Returning == args'.op = "session/create" /\ HasRecord(args'.prolific_pid)

\* C29: the log never holds two records of one prolific id that is not null.
\* A session-create request for an id that has a record returns the session
\* id and the condition of that record, flagged already_complete if the
\* session was submitted and resumed otherwise, even when the request forces
\* another condition; it appends nothing and leaves the cached block alone.
\* No step changes the prolific id or the condition of a record.
C29_OneRecordPerParticipant ==
    [][ /\ \A pid \in Pids \ {NoValue} : Cardinality(RecordsOfPid(sessions', pid)) <= 1
        /\ Len(sessions') >= Len(sessions)
        /\ \A i \in 1..Len(sessions) :
               /\ sessions'[i].prolific_pid = sessions[i].prolific_pid
               /\ sessions'[i].condition = sessions[i].condition
        /\ Returning =>
               /\ sessions' = sessions
               /\ currentBlock' = currentBlock
               /\ \A i \in RecordsOfPid(sessions, args'.prolific_pid) :
                      /\ response'.session_id = i
                      /\ response'.condition = sessions[i].condition
                      /\ response'.kind = IF sessions[i].completed
                                           THEN "already_complete" ELSE "resumed"
      ]_vars

\* A participant whose session was submitted has come back with the other
\* condition in the URL, while the session of another participant is open.
C29_Witness ==
    /\ args.op = "session/create"
    /\ args.prolific_pid \notin Falsy
    /\ IsValidCondition(args.condition)
    /\ response.kind = "already_complete"
    /\ response.condition # args.condition
    /\ \E i \in 1..Len(sessions) :
           /\ sessions[i].prolific_pid \notin Falsy
           /\ sessions[i].prolific_pid # args.prolific_pid
           /\ ~sessions[i].completed

\* ------------------------------------------------------------------------
\* Properties of the pages of the client
\* ------------------------------------------------------------------------
RequiredBlocks == IF state.condition = "simple" THEN {"overall"} ELSE DetailedBlocks

Filled(est) ==
    /\ HasValue(est.minutes) \/ HasValue(est.seconds)
    /\ est.confidence # Undefined

\* C30: in both conditions the demographics page is reached only if every
\* required estimation block (every block of every phase in the detailed
\* condition, the overall block in the simple one) has a minutes or a
\* seconds value and a confidence rating in the state of the client,
\* whatever was typed, cleared and clicked before.
C30_DemographicsNeedsEveryEstimate ==
    state.currentPage = "demographics" =>
        \A b \in RequiredBlocks : Filled(state.estimates[b])

====
